---------------------------- MODULE MCConnections ----------------------------
\* Connections for TLC.
EXTENDS Connections

\* The devices of one kind are interchangeable.
Symmetry == Permutations(Leaches)

\* What the instance leaves out: what follows a race for the list, a second
\* connection once a server command has cut an enrolment short, and a second
\* connection with a modem about.
Involved == SavedDevices \union Listed \union Range(link) \union {connecting}
Bound ==
  /\ ~raced
  /\ sessions > 1 => ~interrupted /\ Involved \cap Modems = {}
=============================================================================
