------------------------------- MODULE MCOMS -------------------------------
(* Constants for the runs of OMS: one order of the given size, one whose   *)
(* size quantizes to zero, and one of an OMS in shadow mode.               *)
EXTENDS OMS

CONSTANTS big, tiny, paper

MCOrders    == {big, tiny}
MCThree     == {big, tiny, paper}
MCBelowGrid == {tiny}
MCShadow    == {paper}
MCQtyTwo    == [o \in MCOrders |-> IF o = tiny THEN 1 ELSE 2]
MCQtyThree  == [o \in MCOrders |-> IF o = tiny THEN 1 ELSE 3]
MCQtyShadow == [o \in MCThree |-> IF o = big THEN 3 ELSE 1]
=============================================================================
