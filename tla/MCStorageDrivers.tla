-------------------------- MODULE MCStorageDrivers ------------------------------
(* StorageDrivers for TLC: two callers and two contents of a column, alike. *)
EXTENDS StorageDrivers, TLC

CONSTANTS ann, annCapital
LoginsMC == {ann, annCapital}
FoldedMC == [l \in LoginsMC |-> ann]

\* What it takes to answer an agent with rotations its row never stood beside: it is
\* created, then changed twice and rotated. Three calls for any other table.
MaxCallsMC == [r \in Repos |-> IF r = "agents" THEN 4 ELSE 3]

\* Four calls are on one agent and its listing: the columns are written alike.
Asked == {call[c] : c \in {d \in Callers : call[d] # None}}
FourOnOneListing == made > 3 =>
    /\ Cardinality(Present \cup {q.key : q \in Asked}) <= 1
    /\ \A q \in Asked : q.op = "set" => DOMAIN q.row = {"listing"}
    /\ \A k \in Present : \A col \in AgentColumns \ {"listing"} : rows[k][col] = None

CallsAlike == Permutations(Callers) \cup Permutations(Vals)
================================================================================
