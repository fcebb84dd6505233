------------------------------ MODULE MCDetector ------------------------------
(* A raw NTLM flow, an FTP login in a flow that may turn to TLS, and an SMB2     *)
(* flow whose session identifier is zero.                                      *)
EXTENDS Detector

Token(f, dir, start, kind, session, size) ==
    [flow |-> f, dir |-> dir, start |-> start, end |-> start + 2, kind |-> kind,
     session |-> session, size |-> size, usable |-> TRUE]
Chunk(f, dir, start, end, lag) ==
    [flow |-> f, dir |-> dir, start |-> start, end |-> end, lag |-> lag]

ThreeFlows == {"raw", "ftp", "smb"}

RawTokens ==
    {Token("raw", 0, 0, "response", NoSession, 2), Token("raw", 0, 2, "response", NoSession, 2),
     Token("raw", 1, 0, "challenge", NoSession, 1), Token("raw", 1, 2, "challenge", NoSession, 1)}
ThreeStreams ==
    RawTokens \cup
    {Token("raw", 0, 4, "negotiate", NoSession, 0),
     Token("ftp", 0, 0, "user", NoSession, 3), Token("ftp", 0, 2, "pass", NoSession, 0),
     Token("ftp", 0, 5, "user", NoSession, 10),
     Token("smb", 0, 1, "response", 0, 2),
     [Token("smb", 0, 4, "response", 0, 5) EXCEPT !.usable = FALSE],
     Token("smb", 1, 1, "challenge", 0, 1), Token("smb", 1, 4, "challenge", 0, 1)}
Hello == {[flow |-> "ftp", dir |-> 1, end |-> 2]}

\* The exchange of the raw flow, with its tokens cut and its first challenge late.
RawChunks ==
    {Chunk("raw", 0, 0, 2, 0), Chunk("raw", 0, 2, 3, 0), Chunk("raw", 0, 3, 5, 0),
     Chunk("raw", 1, 0, 2, 2), Chunk("raw", 1, 2, 4, 0)}
\* Also: a negotiate message at the end, an overlap, a chunk that cuts the PASS line off, one larger than the
\* tail, and a response without its SMB2 header.
AllChunks ==
    RawChunks \cup
    {Chunk("raw", 0, 1, 4, 0), Chunk("raw", 0, 5, 6, 0),
     Chunk("ftp", 0, 0, 3, 0), Chunk("ftp", 0, 3, 5, 0), Chunk("ftp", 0, 3, 6, 0),
     Chunk("ftp", 0, 3, 7, 0), Chunk("ftp", 1, 0, 1, 0), Chunk("ftp", 1, 1, 2, 0),
     Chunk("smb", 0, 0, 3, 0), Chunk("smb", 0, 1, 3, 0), Chunk("smb", 0, 3, 6, 0),
     Chunk("smb", 1, 0, 3, 0), Chunk("smb", 1, 3, 6, 0)}
===============================================================================
