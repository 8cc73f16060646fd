---------------------------- MODULE MCServeLoop ----------------------------
(* ServeLoop with two requests of every kind: frames of 2 to 6 units against
   a buffer of 3 and a pipe of 2, so that a reply may fit the buffer, exceed it,
   fill the pipe, and exceed the limit of 5. *)
EXTENDS ServeLoop

\* Ids that fit the reserve with the envelope, and an absent one.
MCIdSizes == {0, 1}
MCBodySizes == {1, 3, 4, 5}
\* An id the reserve does not cover.
MCLongIdSizes == {2}
=============================================================================
