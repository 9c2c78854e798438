----------------------------- MODULE MC_RxFraming -----------------------------
(***************************************************************************)
(* TLC instances of RxFraming with a two-byte header and a seven-byte      *)
(* buffer; as in the code MaxPayload = BufSize.                            *)
(***************************************************************************)
EXTENDS RxFraming

\* Empty, short, nearly and exactly as long as the buffer can hold.
MC_Fitting == {0, 1, 3, 4, 5}

\* Valid lengths that do not fit behind a header in the buffer.
MC_Large == {0, 6, 7}

\* The length whose total size is 2^32, next to an ordinary one.
MC_Wrapping == {1, SizeMod - Hdr}
=============================================================================
