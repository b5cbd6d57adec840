---------------------------- MODULE MCMonitorModes ----------------------------
(***************************************************************************)
(* A small instance of KeypadMonitorModes for TLC, with every menu.        *)
(***************************************************************************)
EXTENDS KeypadMonitorModes

Default5 == <<5>>
PasswordOnes == {<<1>>}

\* Bound: the only new password tried is 1.
OneNewPassword == candidate \in {<<>>, <<1>>} /\ new_password_count <= 2
=============================================================================
