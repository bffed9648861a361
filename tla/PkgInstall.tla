----------------------------- MODULE PkgInstall ------------------------------
(***************************************************************************)
(* Packages (rupi install, uninstall, update): what a package offers is    *)
(* fetched into a checkout, copied under skills/, commands/, extensions/   *)
(* and themes/ of a root, and recorded in packages.json.  The files and    *)
(* the record are written one after the other by a process that may fail   *)
(* or die in between, and other things live in the same directories.  A    *)
(* record that is being written is truncated first, and one cut short      *)
(* there reads as no record at all.                                        *)
(***************************************************************************)
EXTENDS Integers, Sequences, FiniteSets, Functions

CONSTANTS
  Packages, Names,  \* packages by id; files they may place, <<kind, name>>
  Title(_),         \* display_name of a package
  Procs,            \* rupi processes
  Overlap,          \* packages may offer a file that is another's or the user's
  MaxReleases       \* bound: new versions of packages

VARIABLES
  offers, releases, \* files in the current version of each package
  checkout,         \* packages with a directory under packages/
  placed,           \* who put each file there: a package, "user" or "nobody"
  lock,             \* packages.json as load_lock reads it: [id, files] in
                    \* order, nothing while the file is cut short
  job,              \* what each process does
  torn              \* packages whose installation, removal or record was cut
                    \* short, or of which a file would not be removed

pkgVars == <<offers, releases, checkout, placed, lock, job, torn>>

Idle == [step |-> "idle", id |-> "", todo |-> {}, done |-> {}, lock |-> <<>>]

Kinds == {n[1] : n \in Names}

\* Everything, or one kind.
Filter(files, kinds) == {n \in files : n[1] \in kinds}

\* match_record: by id, or by the title a package shares with others.
Matches(record, p) == record.id = p \/ Title(record.id) = Title(p)

\* retain: the records that are not of p, in order.
Without(l, p) ==
  LET kept[i \in 0..Len(l)] ==
        IF i = 0 THEN <<>>
        ELSE IF l[i].id = p THEN kept[i - 1] ELSE Append(kept[i - 1], l[i])
  IN  kept[Len(l)]

\* Vec::remove.
Remove(l, i) == SubSeq(l, 1, i - 1) \o SubSeq(l, i + 1, Len(l))

FilesOf(l, p) == UNION {r.files : r \in {r \in Range(l) : r.id = p}}

\* remove_materialized: a removal that fails leaves its file and says nothing.
Removed(files, p) ==
  \E stay \in SUBSET {n \in files : placed[n] # "nobody"} :
    /\ placed' = [n \in Names |-> IF n \in files \ stay THEN "nobody" ELSE placed[n]]
    /\ torn' = IF stay = {} THEN torn ELSE torn \cup {p}

-----------------------------------------------------------------------------
\* What the layout of a checkout offers of the kinds asked for; nothing found
\* is an error.
Found(p) == {Filter(offers[p], kinds) : kinds \in {Kinds} \cup {{k} : k \in Kinds}} \ {{}}

\* The former checkout is removed and the current version put in its place.
Fetch(q, p) ==
  /\ job[q] = Idle
  /\ checkout' = checkout \cup {p}
  /\ \/ Found(p) = {} /\ UNCHANGED job
     \/ \E files \in Found(p) :
          job' = [job EXCEPT ![q] = [Idle EXCEPT !.step = "fetched", !.id = p, !.todo = files]]
  /\ UNCHANGED <<offers, releases, placed, lock, torn>>

\* A clone that fails leaves no checkout, a download the former one.
FetchFails(q, p) ==
  /\ job[q] = Idle /\ p \in checkout
  /\ checkout' \in {checkout, checkout \ {p}}
  /\ UNCHANGED <<offers, releases, placed, lock, job, torn>>

\* load_lock and remove_materialized of the former record.
Replace(q) ==
  /\ job[q].step = "fetched"
  /\ Removed(FilesOf(lock, job[q].id), job[q].id)
  /\ job' = [job EXCEPT ![q].step = "place", ![q].lock = lock]
  /\ UNCHANGED <<offers, releases, checkout, lock>>

\* materialize: whatever has the name is overwritten.
Place(q) ==
  /\ job[q].step = "place"
  /\ \E n \in job[q].todo :
       /\ placed' = [placed EXCEPT ![n] = job[q].id]
       /\ job' = [job EXCEPT ![q].todo = @ \ {n}, ![q].done = @ \cup {n}]
  /\ UNCHANGED <<offers, releases, checkout, lock, torn>>

CopyFails(q) ==
  /\ job[q].step = "place" /\ job[q].todo # {}
  /\ job' = [job EXCEPT ![q] = Idle]
  /\ torn' = torn \cup {job[q].id}
  /\ UNCHANGED <<offers, releases, checkout, placed, lock>>

\* save_lock truncates packages.json, and the process has l to write.
Truncate(q, l) ==
  /\ lock' = <<>>
  /\ job' = [job EXCEPT ![q].step = "save", ![q].lock = l]

\* The end of an install: what was read before the copies, and the package.
Save(q) ==
  /\ job[q].step = "place" /\ job[q].todo = {}
  /\ Truncate(q, Append(Without(job[q].lock, job[q].id),
                        [id |-> job[q].id, files |-> job[q].done]))
  /\ UNCHANGED <<offers, releases, checkout, placed, torn>>

Saved(q) ==
  /\ job[q].step = "save"
  /\ lock' = job[q].lock /\ job' = [job EXCEPT ![q] = Idle]
  /\ UNCHANGED <<offers, releases, checkout, placed, torn>>

\* uninstall: the first record that matches; its files, then its checkout,
\* which stays where it is local or its removal fails.
Uninstall(q, p) ==
  /\ job[q] = Idle
  /\ \E i \in DOMAIN lock :
       /\ Matches(lock[i], p) /\ \A j \in 1..(i - 1) : ~Matches(lock[j], p)
       /\ Removed(lock[i].files, lock[i].id)
       /\ checkout' \in {checkout, checkout \ {lock[i].id}}
       /\ job' = [job EXCEPT ![q] = [Idle EXCEPT !.step = "removed", !.id = lock[i].id,
                                        !.lock = Remove(lock, i)]]
  /\ UNCHANGED <<offers, releases, lock>>

SaveRemoved(q) ==
  /\ job[q].step = "removed"
  /\ Truncate(q, job[q].lock)
  /\ UNCHANGED <<offers, releases, checkout, placed, torn>>

\* What is lost when j ends here: its package, and every record that was to be
\* written back.
Cut(j) ==
  CASE j.step = "fetched" -> {}
    [] j.step = "save"    -> {j.id} \cup {r.id : r \in Range(j.lock)}
    [] OTHER              -> {j.id}

\* The process dies, or save_lock cannot open or write the file.
Crash(q) ==
  /\ job[q] # Idle
  /\ job' = [job EXCEPT ![q] = Idle]
  /\ torn' = torn \cup Cut(job[q])
  /\ UNCHANGED <<offers, releases, checkout, placed, lock>>

\* The names p has used or is about to.
Claims(p) ==
  offers[p] \cup FilesOf(lock, p)
    \cup (UNION {FilesOf(job[q].lock, p) : q \in Procs})
    \cup (UNION {job[q].todo \cup job[q].done : q \in {q \in Procs : job[q].id = p}})

\* Unless names may overlap, nobody takes a name that is another's.
MayTake(owner, n) ==
  \/ Overlap
  \/ /\ placed[n] \in {"nobody", owner}
     /\ \A p \in Packages \ {owner} : n \notin Claims(p)

\* A package has a new version; the user writes a skill by hand.
Release ==
  /\ releases < MaxReleases /\ releases' = releases + 1
  /\ \E p \in Packages, files \in SUBSET Names :
       /\ \A n \in files : MayTake(p, n)
       /\ offers' = [offers EXCEPT ![p] = files]
  /\ UNCHANGED <<checkout, placed, lock, job, torn>>

UserWrites ==
  /\ \E n \in Names :
       /\ placed[n] = "nobody" /\ MayTake("user", n)
       /\ placed' = [placed EXCEPT ![n] = "user"]
  /\ UNCHANGED <<offers, releases, checkout, lock, job, torn>>

Init ==
  /\ offers = [p \in Packages |-> {}] /\ releases = 0
  /\ checkout = {} /\ placed = [n \in Names |-> "nobody"]
  /\ lock = <<>> /\ job = [q \in Procs |-> Idle] /\ torn = {}

Next ==
  \/ \E q \in Procs :
       \/ \E p \in Packages : Fetch(q, p) \/ FetchFails(q, p) \/ Uninstall(q, p)
       \/ Replace(q) \/ Place(q) \/ CopyFails(q) \/ Save(q) \/ SaveRemoved(q)
       \/ Saved(q) \/ Crash(q)
  \/ Release \/ UserWrites

Spec == Init /\ [][Next]_pkgVars

-----------------------------------------------------------------------------
TypeOK ==
  /\ offers \in [Packages -> SUBSET Names] /\ releases \in 0..MaxReleases
  /\ checkout \cup torn \subseteq Packages
  /\ placed \in [Names -> Packages \cup {"user", "nobody"}]
  /\ \A l \in {lock} \cup {job[q].lock : q \in Procs} :
       \A r \in Range(l) : r.id \in Packages /\ r.files \subseteq Names

\* What packages.json records of a package is never a file of another package
\* or of the user: an uninstall removes nothing of theirs.  When no process is
\* at work, it records every file the package has put there: an uninstall then
\* removes all of it, and an update leaves nothing of the former version.  The
\* exceptions to the second are in torn: a package whose copies or removal were
\* cut short or failed and, since packages.json is truncated before it is
\* written, every package that is recorded when such a write is cut short.
LockIsTrue ==
  /\ \A p \in Packages : \A n \in FilesOf(lock, p) : placed[n] \in {"nobody", p}
  /\ (\A q \in Procs : job[q] = Idle) =>
       \A p \in Packages \ torn : FilesOf(lock, p) = {n \in Names : placed[n] = p}
=============================================================================
