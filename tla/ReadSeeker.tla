---------------------------- MODULE ReadSeeker ----------------------------
(***************************************************************************)
(* What a reader of an http.File relies on: a position in the content from *)
(* which the next bytes are read, and a directory whose entries are listed *)
(* once each, in order, until it is rewound.                               *)
(***************************************************************************)
EXTENDS Integers

CONSTANTS Size,      \* bytes of the file
          Entries    \* entries of the directory

VARIABLES pos,       \* where the next byte is read
          got,       \* the last bytes read: from where, and how many
          rest,      \* the entries that are not listed yet
          listed     \* the last entries listed

Init == pos = 0 /\ got = <<0, 0>> /\ rest = 1..Entries /\ listed = {}

\* Some of the bytes that follow; none only at the end.
Read == \E n \in 0..(Size - pos) :
          /\ n = 0 => pos = Size
          /\ got' = <<pos, n>>
          /\ pos' = pos + n
          /\ UNCHANGED <<rest, listed>>

Seek == \E to \in 0..Size :
          pos' = to /\ got' = <<to, 0>> /\ UNCHANGED <<rest, listed>>

\* The entries that follow, in order; none only at the end.
List == \E last \in 0..Entries :
          LET next == {e \in rest : e <= last}
          IN /\ next = {} => rest = {}
             /\ listed' = next
             /\ rest' = rest \ next
             /\ UNCHANGED <<pos, got>>

Rewind == rest' = 1..Entries /\ listed' = {} /\ UNCHANGED <<pos, got>>

Spec == Init /\ [][Read \/ Seek \/ List \/ Rewind]_<<pos, got, rest, listed>>
=============================================================================
