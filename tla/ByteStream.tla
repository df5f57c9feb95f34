------------------------------- MODULE ByteStream -------------------------------
(***************************************************************************)
(* What a pipe promises its users, whatever the threads around it do: a    *)
(* bounded queue of bytes with a writing and a reading side.  Bytes come   *)
(* out in the order they went in, none is lost or made up while both sides *)
(* are open, nothing goes in once either side is gone, and what the        *)
(* writers left stays readable after they are gone.                        *)
(***************************************************************************)
EXTENDS Integers, Sequences

CONSTANT Capacity

VARIABLES
  queue,    \* the bytes in transit
  writing,  \* the writing side is open
  reading   \* the reading side is open

stream == <<queue, writing, reading>>

StreamInit == queue = <<>> /\ writing = TRUE /\ reading = TRUE

Put ==
  /\ writing /\ reading
  /\ Len(queue) < Len(queue') /\ Len(queue') <= Capacity
  /\ SubSeq(queue', 1, Len(queue)) = queue
  /\ UNCHANGED <<writing, reading>>

Take ==
  /\ \E n \in 1..Len(queue) : queue' = SubSeq(queue, n + 1, Len(queue))
  /\ UNCHANGED <<writing, reading>>

\* A side goes for good; with both gone the bytes go too.
HangUp ==
  /\ writing' => writing
  /\ reading' => reading
  /\ queue' = IF writing' \/ reading' THEN queue ELSE <<>>

StreamNext == Put \/ Take \/ HangUp
StreamSpec == StreamInit /\ [][StreamNext]_stream
=============================================================================
