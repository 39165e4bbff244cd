----------------------------- MODULE ZipStream -----------------------------
(***************************************************************************)
(* What zippity::Reader promises to whoever holds it as an AsyncRead and   *)
(* an AsyncSeek (docs of seek_from_start_mut, tell, take_pinned and Clone  *)
(* in src/reader.rs): a file of `size` bytes that can be read from any     *)
(* position, piece by piece.  Byte p of the file is the number p.          *)
(***************************************************************************)
EXTENDS Integers, Sequences

VARIABLES
  size,     \* length of the file
  at,       \* the position the next read starts from
  got,      \* the bytes the last read delivered
  room,     \* how many it was asked for
  status    \* "busy" during a read, otherwise how the last call ended

vars == << size, at, got, room, status >>

Bytes(b, n) == [k \in 1 .. n |-> b + k - 1]

AtRest == status \notin {"busy", "panicked"}

Init ==
  /\ size \in Nat
  /\ at = 0
  /\ got = << >>
  /\ room \in Nat
  /\ status = "none"

BeginRead ==
  /\ AtRest
  /\ room' \in Nat
  /\ got' = << >>
  /\ status' = "busy"
  /\ UNCHANGED << size, at >>

(* A read delivers the bytes that follow the position, and nothing at all  *)
(* only to a caller without room or past the end of the file.              *)
EndRead ==
  /\ status = "busy"
  /\ got' = Bytes(at, Len(got'))
  /\ at' = at + Len(got')
  /\ Len(got') <= room
  /\ IF got' = << >> THEN room = 0 \/ at >= size ELSE at' <= size
  /\ status' = "ok"
  /\ UNCHANGED << size, room >>

(* A read that reports Pending has delivered nothing. *)
PendRead ==
  /\ status = "busy"
  /\ got' = << >>
  /\ status' = "pending"
  /\ UNCHANGED << size, at, room >>

(* A read that fails may have passed over bytes, but over no others than   *)
(* those it wrote to the caller's buffer.                                  *)
FailRead ==
  /\ status = "busy"
  /\ got' = Bytes(at, Len(got'))
  /\ at' = at + Len(got')
  /\ Len(got') < room
  /\ status' = "failed"
  /\ UNCHANGED << size, room >>

Seek ==
  /\ AtRest
  /\ at' \in Nat
  /\ got' = << >>
  /\ status' = "none"
  /\ UNCHANGED << size, room >>

(* A seek to before the start is refused and moves nothing. *)
RefuseSeek ==
  /\ AtRest
  /\ status' = "refused"
  /\ UNCHANGED << size, at, got, room >>

(* A seek past the largest offset there is panics.  Nothing else does.     *)
OverflowSeek ==
  /\ AtRest
  /\ status' = "panicked"
  /\ UNCHANGED << size, at, got, room >>

Next ==
  \/ BeginRead \/ EndRead \/ PendRead \/ FailRead
  \/ Seek \/ RefuseSeek \/ OverflowSeek

Spec == Init /\ [][Next]_vars

=============================================================================
