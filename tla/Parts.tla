------------------------------- MODULE Parts --------------------------------
(*****************************************************************************)
(* Variables for a module that checks instances of several components side   *)
(* by side: a behaviour is about one component, `part`, whose variables are  *)
(* s1, s2, ... in the order of its `vars`, unless the module extends it. A   *)
(* component has less state than all of them together, and none of theirs.   *)
(*****************************************************************************)
EXTENDS Naturals

VARIABLES part, s1, s2, s3, s4, s5, s6, s7, s8, s9, s10, s11, s12, s13, s14, s15, s16,
          s17, s18, s19, s20, s21, s22, s23, s24

partVars == <<part, s1, s2, s3, s4, s5, s6, s7, s8, s9, s10, s11, s12, s13, s14, s15, s16,
              s17, s18, s19, s20, s21, s22, s23, s24>>

\* The variables past the n-th belong to no variable of the component.
Unused(n) ==
  /\ (n < 1 => s1 = "unused")    /\ (n < 2 => s2 = "unused")
  /\ (n < 3 => s3 = "unused")    /\ (n < 4 => s4 = "unused")
  /\ (n < 5 => s5 = "unused")    /\ (n < 6 => s6 = "unused")
  /\ (n < 7 => s7 = "unused")    /\ (n < 8 => s8 = "unused")
  /\ (n < 9 => s9 = "unused")    /\ (n < 10 => s10 = "unused")
  /\ (n < 11 => s11 = "unused")  /\ (n < 12 => s12 = "unused")
  /\ (n < 13 => s13 = "unused")  /\ (n < 14 => s14 = "unused")
  /\ (n < 15 => s15 = "unused")  /\ (n < 16 => s16 = "unused")
  /\ (n < 17 => s17 = "unused")  /\ (n < 18 => s18 = "unused")
  /\ (n < 19 => s19 = "unused")  /\ (n < 20 => s20 = "unused")
  /\ (n < 21 => s21 = "unused")  /\ (n < 22 => s22 = "unused")
  /\ (n < 23 => s23 = "unused")  /\ (n < 24 => s24 = "unused")

Untouched(n) ==
  /\ (n < 1 => UNCHANGED s1)    /\ (n < 2 => UNCHANGED s2)
  /\ (n < 3 => UNCHANGED s3)    /\ (n < 4 => UNCHANGED s4)
  /\ (n < 5 => UNCHANGED s5)    /\ (n < 6 => UNCHANGED s6)
  /\ (n < 7 => UNCHANGED s7)    /\ (n < 8 => UNCHANGED s8)
  /\ (n < 9 => UNCHANGED s9)    /\ (n < 10 => UNCHANGED s10)
  /\ (n < 11 => UNCHANGED s11)  /\ (n < 12 => UNCHANGED s12)
  /\ (n < 13 => UNCHANGED s13)  /\ (n < 14 => UNCHANGED s14)
  /\ (n < 15 => UNCHANGED s15)  /\ (n < 16 => UNCHANGED s16)
  /\ (n < 17 => UNCHANGED s17)  /\ (n < 18 => UNCHANGED s18)
  /\ (n < 19 => UNCHANGED s19)  /\ (n < 20 => UNCHANGED s20)
  /\ (n < 21 => UNCHANGED s21)  /\ (n < 22 => UNCHANGED s22)
  /\ (n < 23 => UNCHANGED s23)  /\ (n < 24 => UNCHANGED s24)

===============================================================================
