------------------------------- MODULE MediaTime -------------------------------
(***************************************************************************)
(* The clock of a video.  A constant-rate clip of n frames at num/den      *)
(* frames per second lasts n*den/num seconds; times are integer            *)
(* milliseconds, rounded the way the worker rounds them.                   *)
(***************************************************************************)
EXTENDS Integers

\* Python's round of n/d: to the nearest integer, halves to the even one.
Round(n, d) ==
  LET q == n \div d
      r == 2 * (n % d)
  IN  IF r < d \/ (r = d /\ q % 2 = 0) THEN q ELSE q + 1

DurationMs(c) == Round(1000 * c.frames * c.den, c.num)

Timestamp(c, i) == Round(1000 * i * c.den, c.num)

FrameForTime(c, t) == (t * c.num) \div (1000 * c.den)
=============================================================================
