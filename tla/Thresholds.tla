------------------------------ MODULE Thresholds ------------------------------
(***************************************************************************)
(* Per-attempt threshold resolution (core/resolve.hpp) and the percent of  *)
(* a position (startpos.hpp).                                              *)
(***************************************************************************)
EXTENDS Integers

ResolveUnguarded(cfg, spIndex, spawnPercent) ==  \* faulty: no arming guard
  {c.sp[spIndex] : c \in {d \in cfg : /\ d.enabled
                                      /\ spIndex \in DOMAIN d.sp
                                      /\ d.sp[spIndex] \in 1..100}}

ResolveUnranged(cfg, spIndex, spawnPercent) ==  \* faulty: no check of the range
  {c.sp[spIndex] : c \in {d \in cfg : /\ d.enabled
                                      /\ spIndex \in DOMAIN d.sp
                                      /\ d.sp[spIndex] > spawnPercent}}

(* A std::optional is the set of its value: {} is std::nullopt.  A LevelConfig
   has sp, a function on the startpos indices with an entry. *)
ResolveThreshold(cfg, spIndex, spawnPercent) ==
  {c.sp[spIndex] : c \in {d \in cfg : /\ d.enabled
                                      /\ spIndex \in DOMAIN d.sp
                                      /\ d.sp[spIndex] \in 1..100
                                      /\ d.sp[spIndex] > spawnPercent}}

(* percentForPos: the whole percents of x in total, kept within 0..100; a
   level without a duration is at 0 everywhere, a length below 1 counts as 1.
   x and total are times (2.2) or distances (2.1); C++ truncates towards 0. *)
Clamp(low, n, high) == IF n < low THEN low ELSE IF n > high THEN high ELSE n

PercentForPos(x, total, use21) ==
  LET length == IF use21 /\ total < 1 THEN 1 ELSE total
  IN  IF length <= 0 THEN 0
      ELSE Clamp(0, IF x < 0 THEN 0 ELSE (x * 100) \div length, 100)
=============================================================================
