----------------------------- MODULE FileTimes -----------------------------
(***************************************************************************)
(* The two ways in which the host's clock, Date.now() in milliseconds,     *)
(* reaches a guest: clock_time_get (src/index.ts), in numbers of any size, *)
(* and the *_NOW flags of fd_filestat_set_times and path_filestat_set_     *)
(* times (src/memfs.cc), through an int32_t.  Both are timestamps in       *)
(* nanoseconds.  The unit of a timestamp here is a million nanoseconds.    *)
(***************************************************************************)
EXTENDS Integers

CONSTANTS
  MaxNow,  (* The last reading of Date.now(), a bound of the model.         *)
  Word     (* 2^32                                                          *)

VARIABLES
  now,     (* Date.now()                                                    *)
  mtim,    (* The time stored for a file,                                   *)
  at       (* and the reading of Date.now() it was made from, or -1.        *)

vars == <<now, mtim, at>>

Signed(n) == IF n % Word < Word \div 2 THEN n % Word ELSE (n % Word) - Word

clock_time_get == now * 1

(* The import makes an int32_t of the number.  The product of two of them,  *)
(* if it overflows, is undefined: it wraps, or a compiler has made one of   *)
(* 64 bits of it.  Only the outcomes of small readings are exact: the unit  *)
(* here is a million nanoseconds, and in nanoseconds the product overflows  *)
(* for a reading of 215 already, and may be sign-extended.  The factor, ten *)
(* where it should be one, shows with the first reading after 0.            *)
now_ms == Signed(now)
now_ns == {Signed(now_ms * 10), now_ms * 10}

Tick == now' \in now + 1 .. MaxNow /\ UNCHANGED <<mtim, at>>

(* set_file_times with MTIM_NOW                                             *)
set_file_times == mtim' \in now_ns /\ at' = now /\ UNCHANGED now

Init == now \in 0 .. MaxNow /\ mtim = 0 /\ at = -1

Next == Tick \/ set_file_times

Spec == Init /\ [][Next]_vars

(* "Timestamps are captured using Date.now() [...] This affects the         *)
(* implementation of clock_res_get, clock_time_get, fd_filestat_set_times,  *)
(* path_filestat_set_times" (README.md): a file whose time was set to now   *)
(* has the time that clock_time_get gives for the same Date.now().          *)
NowIsDateNow == at = now => mtim = clock_time_get
=============================================================================
