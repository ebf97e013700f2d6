---------------------------- MODULE MCRfMigration ----------------------------
(* Two networks on their own channels and two nodes of the first, which share *)
(* the group; the second network may still be without a config in the records.*)
EXTENDS RfMigration, TLC
CONSTANTS d1, d2, n1, n2, e1, g1, c1, c2, c3

MCTargets == {Devs}

MCInit ==
  /\ mem \in [rf : {[n \in {n1, n2, e1} |-> CASE n = n1 -> c1 [] n = n2 -> x [] OTHER -> None] :
                      x \in {c2, None}},
              dnet : {[d \in Devs |-> n1]}, last : {[d \in Devs |-> c1]},
              grp : {[d \in Devs |-> g1]}, gnet : {[g \in Groups |-> n1]}]
  /\ disk = mem /\ nvs = [n \in Nets |-> IF n = n1 THEN c1 ELSE c2] /\ live = nvs
  /\ dcfg = [d \in Devs |-> c1]
  /\ drift = {n \in Nets : mem.rf[n] # nvs[n]}
  /\ reachable = {d1} /\ job = None /\ ops = [jobs |-> 0, other |-> 0]
MCSpec == MCInit /\ [][MigrationNext]_migrationVars /\ MigrationFairness
=============================================================================
