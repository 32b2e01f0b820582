------------------------------ MODULE MCIPGeo ------------------------------
(* One IP: a single line, or a line for each of two websites.               *)
EXTENDS IPGeo

CONSTANTS i1, s1, s2

OneRow  == {[ip |-> i1, site |-> s1]}
OneEach == {[ip |-> i1, site |-> s] : s \in {s1, s2}}
=============================================================================
