------------------------------- MODULE Schema -------------------------------
(***************************************************************************)
(* Servers that start and bring the database to the current schema         *)
(* (db.rs, migrate): each reads which versions are stamped, applies the    *)
(* others in order and stamps each after it. A server may crash between    *)
(* two statements, and two may start at the same time. A database older    *)
(* than the stamps is recognised by its table of tenants.                  *)
(***************************************************************************)
EXTENDS Integers, Sequences

CONSTANTS
  Servers,
  MaxCrashes      \* bound: crashes in a behaviour

SchemaAssumption == MaxCrashes \in Nat

VARIABLES
  parts,     \* what the database has: the parts of Needs
  stamps,    \* the rows of schema_migrations
  boot,      \* server -> the statement it is at, and the versions it has read
  crashes,
  early      \* auxiliary: a database was taken for an old one before it was whole

schemaVars == <<parts, stamps, boot, crashes, early>>

Versions == 1..4

\* The batches of each version, in order; those of Optional may fail.
Batches == << <<"core">>, <<"columns", "search", "admin">>, <<"cjk">>, <<"role">> >>
Optional == {"search", "cjk"}
AllParts == {"core", "columns", "search", "admin", "cjk", "role"}

\* What a batch alters must be there.
Needs(b) == CASE b = "core" -> {} [] b = "role" -> {"admin"} [] OTHER -> {"core"}

Off == [at |-> "off"]
Running(v, n, seen) == [at |-> "apply", version |-> v, batch |-> n, seen |-> seen]

TypeOK ==
  /\ parts \subseteq AllParts /\ stamps \subseteq Versions /\ crashes \in 0..MaxCrashes
  /\ \A s \in Servers : boot[s].at \in {"off", "adopt", "apply", "stamp", "serving"}

\* A new database, or one of before the versions were recorded.
Init ==
  /\ parts \in {{}, {"core", "columns", "search", "admin"}} /\ stamps = {}
  /\ boot = [s \in Servers |-> Off] /\ crashes = 0 /\ early = FALSE

\* migrate, first: the stamps are read.
Start(s) ==
  /\ boot[s].at = "off"
  /\ LET old == stamps = {} /\ "core" \in parts IN
     /\ boot' = [boot EXCEPT ![s] = IF old THEN [at |-> "adopt", version |-> 1]
                                           ELSE Running(1, 1, stamps)]
     /\ early' = (early \/ (old /\ ~({"columns", "admin"} \subseteq parts)))
  /\ UNCHANGED <<parts, stamps, crashes>>

\* The tables are there and no stamp is: versions 1 to 3 are stamped, and the
\* stamps are read again.
Adopt(s) ==
  LET b == boot[s] IN
  /\ b.at = "adopt"
  /\ stamps' = stamps \cup {b.version}
  /\ boot' = [boot EXCEPT ![s] = IF b.version < 3 THEN [b EXCEPT !.version = @ + 1]
                                                  ELSE Running(1, 1, stamps')]
  /\ UNCHANGED <<parts, crashes, early>>

\* The next version that is not stamped, or none.
After(s, v, seen) == IF v < 4 THEN Running(v + 1, 1, seen) ELSE [at |-> "serving"]

Skip(s) ==
  LET b == boot[s] IN
  /\ b.at = "apply" /\ b.version \in b.seen
  /\ boot' = [boot EXCEPT ![s] = After(s, b.version, b.seen)]
  /\ UNCHANGED <<parts, stamps, crashes, early>>

\* One batch: it fails when what it alters is missing, and the server with it.
\* The search index and the n-grams may fail for want of an extension or a
\* right; version 3 is then not stamped, and is tried again at each start.
Apply(s) ==
  LET b == boot[s]
      batch == Batches[b.version][b.batch]
      last == b.batch = Len(Batches[b.version])
      done == IF last THEN [b EXCEPT !.at = "stamp"] ELSE [b EXCEPT !.batch = @ + 1] IN
  /\ b.at = "apply" /\ b.version \notin b.seen
  /\ IF Needs(batch) \subseteq parts
     THEN \/ parts' = parts \cup {batch} /\ boot' = [boot EXCEPT ![s] = done]
          \/ /\ batch \in Optional /\ UNCHANGED parts
             /\ boot' = [boot EXCEPT ![s] = IF batch = "cjk" THEN After(s, 3, b.seen) ELSE done]
     ELSE boot' = [boot EXCEPT ![s] = Off] /\ UNCHANGED parts
  /\ UNCHANGED <<stamps, crashes, early>>

Stamp(s) ==
  LET b == boot[s] IN
  /\ b.at = "stamp"
  /\ stamps' = stamps \cup {b.version}
  /\ boot' = [boot EXCEPT ![s] = After(s, b.version, b.seen)]
  /\ UNCHANGED <<parts, crashes, early>>

\* A server stops, wherever it is.
Crash(s) ==
  /\ boot[s].at # "off" /\ crashes < MaxCrashes
  /\ boot' = [boot EXCEPT ![s] = Off] /\ crashes' = crashes + 1
  /\ UNCHANGED <<parts, stamps, early>>

Next == \E s \in Servers : Start(s) \/ Adopt(s) \/ Skip(s) \/ Apply(s) \/ Stamp(s) \/ Crash(s)

Spec == Init /\ [][Next]_schemaVars

----------------------------------------------------------------------------
\* A server that serves finds every table and column its statements name,
\* whatever crashed before it or starts beside it (the search index and the
\* n-grams are optional), and a stamp is never ahead of what it stands for,
\* unless a first start was cut between the tables and their stamp: the next
\* server takes the half built database for an old one (db.rs:164).
SchemaServes ==
  /\ \A s \in Servers : boot[s].at = "serving" => {"core", "columns", "admin", "role"} \subseteq parts
  /\ \A v \in stamps \ {3} : ~early =>
       {Batches[v][n] : n \in 1..Len(Batches[v])} \ Optional \subseteq parts

=============================================================================
