------------------------------ MODULE MCSharing ------------------------------
(***************************************************************************)
(* An instance of Sharing for TLC.                                         *)
(***************************************************************************)
EXTENDS Sharing

CONSTANTS t1, t2

Threads == {t1, t2}

\* A thread writes what no other thread writes.
OwnTexts == [t \in Threads |-> {t}]

-----------------------------------------------------------------------------
(* States that differ in the addresses of nodes alone are the same: nodes  *)
(* are told apart by where they are first met from the threads.            *)

Anchors(t) == << ptr[Root(t)], ptr[Local(t)] >> \o dying[t]

Below(n) == IF n = Null THEN <<>> ELSE [i \in Index |-> ptr[Child(n, i)]]

NextLayer(ns) == Concat([k \in DOMAIN ns |-> Below(ns[k])])

Layers ==
  LET layer[h \in 0..MaxHeight] ==
        IF h = 0 THEN Anchors(t1) \o Anchors(t2) ELSE NextLayer(layer[h - 1])
  IN  Concat([h \in 1..(MaxHeight + 1) |-> layer[h - 1]])

StructureOf(met) ==
  LET first(n) == CHOOSE k \in DOMAIN met : met[k] = n /\ \A j \in 1..(k - 1) : met[j] # n
      of(n)    == IF n = Null THEN Null ELSE <<first(n), strong[n], height[n], text[n]>>
  IN  << [k \in DOMAIN met |-> of(met[k])],
         [t \in Threads |->
            <<pc[t], IF at[t] = Root(t) THEN 0 ELSE <<first(at[t][1]), at[t][2]>>,
              {first(n) : n \in owned[t]}, [k \in DOMAIN dying[t] |-> first(dying[t][k])],
              [k \in DOMAIN chain[t] |-> first(chain[t][k])]>>],
         Cardinality(Free) >>

Structure == StructureOf(Layers)
=============================================================================
