-------------------------- MODULE MCKeypadScanner --------------------------
\* Instance of KeypadScanner for TLC.
EXTENDS KeypadScanner

\* What an uninitialised msg_key must look like to be read as a digit or a star.
ShortReleases == {m \in Messages : m.key_release /\ ~m.is_long_key}
=============================================================================
