---------------------------- MODULE DosDatetime ----------------------------
(***************************************************************************)
(* structs::DosDatetime (src/structs.rs): a date and a time of day packed  *)
(* into 16 bits each, with two-second resolution, from 1980 to 2107.       *)
(* Fields that do not overlap are added where the code has |, and shifts   *)
(* and masks are divisions and remainders.                                 *)
(***************************************************************************)
EXTENDS Integers

(* What a caller gives: i32 for the year, u32 for the others. *)
DateFields ==
  [year : Int, month : Nat, day : Nat, hour : Nat, minute : Nat, second : Nat]

LastU16 == 65535
DosDatetimes == [time : 0 .. LastU16, date : 0 .. LastU16]

(* Option<DosDatetime> is a sequence of at most one. *)
None    == << >>
Some(x) == << x >>

InRange(f) ==
  /\ f.year   \in 1980 .. 1980 + 127
  /\ f.month  \in 1 .. 12
  /\ f.day    \in 1 .. 31
  /\ f.hour   <= 23
  /\ f.minute <= 59
  /\ f.second <= 59

Packed(f) ==
  [time |-> f.second \div 2 + 32 * f.minute + 2048 * f.hour,
   date |-> f.day + 32 * f.month + 512 * (f.year - 1980)]

(* DosDatetime::new. *)
DosNew(f) == IF InRange(f) THEN Some(Packed(f)) ELSE None

(* #[derive(Default)]. *)
DosDefault == [time |-> 0, date |-> 0]

(* The accessors, as any reader of ZIP files has them. *)
Year(d)   == d.date \div 512 + 1980
Month(d)  == (d.date \div 32) % 16
Day(d)    == d.date % 32
Hour(d)   == d.time \div 2048
Minute(d) == (d.time \div 32) % 64
Second(d) == (d.time % 32) * 2

Unpacked(d) ==
  [year |-> Year(d), month |-> Month(d), day |-> Day(d),
   hour |-> Hour(d), minute |-> Minute(d), second |-> Second(d)]

(* What is left of f once it went through a DosDatetime. *)
EvenSecond(f) == [f EXCEPT !.second = 2 * (@ \div 2)]

(* "The default value (1980-01-01T00:00:00)" of the setters' docs. *)
Jan1980 == [year |-> 1980, month |-> 1, day |-> 1,
            hour |-> 0, minute |-> 0, second |-> 0]

=============================================================================
