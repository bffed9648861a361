------------------------------ MODULE ToolHost ------------------------------
(***************************************************************************)
(* The table of tools a local session offers its model (ToolRegistry), and *)
(* who writes to it: the built-in tools, the servers of McpManager and the *)
(* manifests of ExtensionSet.  Servers and files change while the session  *)
(* runs; the table follows before each turn (refresh_server of every       *)
(* server that announced a change, refresh_extensions over the files).     *)
(*                                                                         *)
(* A name is a pair whose head says how it begins: the tool t of server s  *)
(* is <<s, t>>, and Inner has <<a, b>> when the names of b begin with the  *)
(* prefix of a, as those of "a_b" do.                                      *)
(***************************************************************************)
EXTENDS Integers, FiniteSets

CONSTANTS
  Servers, Tools,   \* MCP servers and the names of their tools
  Files, ExtNames,  \* manifest files and the names they may declare
  Builtins,         \* names of the built-in tools
  Inner,            \* pairs of servers, the first one's prefix inside the other's
  Upsets,           \* of "lost" (an announcement is lost), "list" (a list fails),
                    \* "shared" (two files declare one name), "protocol" (a
                    \* manifest changes its protocol), "spawn" (a start fails)
  MaxVersion        \* bound: changes of the files

VARIABLES
  started,
  remote,           \* the tools each server has
  watch,            \* servers whose announcement waits in the channel
  missed,           \* servers with an announcement that did not count
  disk, version,    \* manifests: [name, rpc, ok, version] or NoFile
  snapshot,         \* ExtensionSet.snapshot: version and name by file
  hosts,            \* ExtensionSet.rpc_hosts: the manifest run by name
  registry          \* ToolRegistry.tools: who serves a name

toolVars == <<started, remote, watch, missed, disk, version, snapshot, hosts, registry>>

NoFile == [name |-> <<>>, rpc |-> FALSE, ok |-> FALSE, version |-> 0]
Unseen == [name |-> <<>>, version |-> 0]

\* Who serves a name: the program, a server or a version of a file.
Builtin == [by |-> "builtin", of |-> {}, version |-> 0]
Mcp(s) == [by |-> "mcp", of |-> {s}, version |-> 0]
Ext(f, m) == [by |-> "ext", of |-> {f}, version |-> m.version]

Put(table, n, who) == [k \in DOMAIN table \cup {n} |-> IF k = n THEN who ELSE table[k]]
Drop(table, names) == [k \in DOMAIN table \ names |-> table[k]]

\* name.starts_with("{server}_")
HasPrefix(n, s) == n[1] = s \/ <<s, n[1]>> \in Inner

Offered(s) == {<<s, t>> : t \in remote[s]}

-----------------------------------------------------------------------------
(* McpManager *)

\* register_all: every tool of every server; a name of one of the servers is
\* not taken twice, one of the program is.
RegisterAll(table) ==
  [n \in DOMAIN table \cup UNION {Offered(s) : s \in Servers} |->
     IF \E s \in Servers : n \in Offered(s)
     THEN Mcp(CHOOSE s \in Servers : n \in Offered(s)) ELSE table[n]]

RefreshedNoUnregister(table, s) == (* (a bug: tools that are gone stay) *)
  [n \in DOMAIN table \cup Offered(s) |-> IF n \in DOMAIN table THEN table[n] ELSE Mcp(s)]

\* refresh_server: a new name that is free is registered; each name with the
\* server's prefix that the server does not offer is unregistered.
Refreshed(table, s) ==
  LET current == {n \in DOMAIN table : HasPrefix(n, s)}
      fresh == Offered(s) \ DOMAIN table
  IN  [n \in (DOMAIN table \cup fresh) \ (current \ Offered(s)) |->
         IF n \in fresh THEN Mcp(s) ELSE table[n]]

\* notifications/tools/list_changed reaches the channel, or not: a server over
\* HTTP whose stream is down, or one that does not announce.
RemoteChange ==
  /\ started
  /\ \E s \in Servers, ts \in SUBSET Tools :
       /\ ts # remote[s] /\ remote' = [remote EXCEPT ![s] = ts]
       /\ \/ watch' = watch \cup {s} /\ UNCHANGED missed
          \/ "lost" \in Upsets /\ missed' = missed \cup {s} /\ UNCHANGED watch
  /\ UNCHANGED <<started, disk, version, snapshot, hosts, registry>>

\* The announcement is taken from the channel before the list is asked for.
RefreshServer ==
  /\ started
  /\ \E s \in watch :
       /\ watch' = watch \ {s}
       /\ \/ registry' = Refreshed(registry, s) /\ missed' = missed \ {s}
          \/ "list" \in Upsets /\ missed' = missed \cup {s} /\ UNCHANGED registry
  /\ UNCHANGED <<started, remote, disk, version, snapshot, hosts>>

-----------------------------------------------------------------------------
(* ExtensionSet *)

Enabled(f) == disk[f] # NoFile /\ disk[f].ok

\* install_one for the files fs, in some order when two have one name: a
\* long-lived one first drops the host of its name.  A start that fails leaves
\* the name with who had it.
Install(fs, table, running) ==
  \E failed \in IF "spawn" \in Upsets THEN SUBSET {f \in fs : disk[f].rpc} ELSE {{}} :
    LET names == {disk[f].name : f \in fs \ failed}
        own(n) == CHOOSE f \in fs \ failed : disk[f].name = n
        rpcs == {disk[f].name : f \in {f \in fs : disk[f].rpc}}
        runs == {n \in names : disk[own(n)].rpc}
    IN  /\ registry' = [n \in DOMAIN table \cup names |->
                          IF n \in names THEN Ext(own(n), disk[own(n)]) ELSE table[n]]
        /\ hosts' = [n \in (DOMAIN running \ rpcs) \cup runs |->
                       IF n \in runs THEN Ext(own(n), disk[own(n)]) ELSE running[n]]

Seen(f) == [name |-> disk[f].name, version |-> disk[f].version]

\* Builtins, then the servers, then load_all: a broken manifest is skipped.
Startup ==
  /\ ~started /\ started' = TRUE
  /\ snapshot' = [f \in Files |-> IF Enabled(f) THEN Seen(f) ELSE Unseen]
  /\ Install({f \in Files : Enabled(f)}, RegisterAll([n \in Builtins |-> Builtin]), <<>>)
  /\ UNCHANGED <<remote, watch, missed, disk, version>>

\* The names to unregister: of files that are gone, and the former name of a
\* file that has another one now.
Gone(changed) ==
  LET lost == {f \in Files : disk[f] = NoFile /\ snapshot[f] # Unseen}
      renamed == {f \in changed : snapshot[f] # Unseen /\ snapshot[f].name # disk[f].name}
  IN  {snapshot[f].name : f \in lost \cup renamed}

\* refresh_extensions: what is gone is unregistered before what changed is
\* registered.  A manifest that became unreadable keeps what it had.
RefreshExtensions ==
  LET changed == {f \in Files : Enabled(f) /\ snapshot[f].version # disk[f].version}
      gone == Gone(changed)
  IN  /\ started
      /\ changed # {} \/ gone # {}
      /\ snapshot' = [f \in Files |-> CASE f \in changed -> Seen(f)
                                        [] disk[f] = NoFile -> Unseen
                                        [] OTHER -> snapshot[f]]
      /\ Install(changed, Drop(registry, gone), Drop(hosts, gone))
      /\ UNCHANGED <<started, remote, watch, missed, disk, version>>

\* Names another file declares, or still has in the table.
Taken(f) ==
  {disk[g].name : g \in Files \ {f}}
    \cup {snapshot[g].name : g \in {g \in Files \ {f} : ~Enabled(g)}}

SameProtocol(f, r) ==
  /\ disk[f] # NoFile => disk[f].rpc = r
  /\ snapshot[f] # Unseen => (r <=> snapshot[f].name \in DOMAIN hosts)

\* A file is written, with a valid manifest or not, or removed.
EditFile ==
  /\ version < MaxVersion /\ version' = version + 1
  /\ \E f \in Files :
       \/ \E n \in ExtNames, r, valid \in BOOLEAN :
            /\ "shared" \notin Upsets => n \notin Taken(f)
            /\ "shared" \notin Upsets /\ ~valid /\ snapshot[f] # Unseen =>
                 \A g \in Files \ {f} : disk[g].name # snapshot[f].name
            /\ SameProtocol(f, r) \/ "protocol" \in Upsets
            /\ disk' = [disk EXCEPT ![f] =
                          [name |-> n, rpc |-> r, ok |-> valid, version |-> version']]
       \/ disk[f] # NoFile /\ disk' = [disk EXCEPT ![f] = NoFile]
  /\ UNCHANGED <<started, remote, watch, missed, snapshot, hosts, registry>>

Init ==
  /\ started = FALSE
  /\ remote \in [Servers -> SUBSET Tools]
  /\ watch = {} /\ missed = {}
  /\ disk = [f \in Files |-> NoFile] /\ version = 0
  /\ snapshot = [f \in Files |-> Unseen]
  /\ hosts = <<>>
  /\ registry = <<>>

Next == RemoteChange \/ RefreshServer \/ Startup \/ RefreshExtensions \/ EditFile

Spec == Init /\ [][Next]_toolVars

-----------------------------------------------------------------------------
TypeOK ==
  /\ started \in BOOLEAN /\ watch \cup missed \subseteq Servers
  /\ \A s \in Servers : remote[s] \subseteq Tools
  /\ version \in 0..MaxVersion
  /\ \A f \in Files : disk[f].version <= version /\ snapshot[f].version <= version
  /\ DOMAIN registry \subseteq (Servers \X Tools) \cup ExtNames \cup Builtins
  /\ DOMAIN hosts \subseteq ExtNames

\* Nothing of the files or of s has changed since the table was last made.
FilesSeen ==
  started /\ \A f \in Files :
    IF Enabled(f) THEN snapshot[f] = Seen(f) ELSE disk[f] = NoFile => snapshot[f] = Unseen
Followed(s) == started /\ s \notin watch \cup missed

ServersAreTrue ==
  \A s \in Servers : Followed(s) =>
    \A t \in Tools : t \in remote[s] <=> <<s, t>> \in DOMAIN registry

FilesAreTrue ==
  /\ \A f \in Files : Enabled(f) =>
       disk[f].name \in DOMAIN registry /\ registry[disk[f].name] = Ext(f, disk[f])
  /\ \A n \in DOMAIN registry : registry[n].by = "ext" =>
       \E f \in Files : registry[n].of = {f} /\ snapshot[f].name = n

\* Commands and event subscriptions come from the processes of manifests that
\* are there, and are of the long-lived kind.
HostsAreTrue ==
  \A n \in DOMAIN hosts :
    \E f \in Files : /\ hosts[n].of = {f} /\ snapshot[f].name = n /\ hosts[n] = registry[n]
                     /\ Enabled(f) => disk[f].rpc

\* When the announcements are worked off and the files were looked at, the
\* table is what servers and files say: a call goes to the server or to the
\* version of the manifest that is there now, nothing that is gone can be
\* called, nothing that is there is missing, and a built-in tool is there.
TableIsTrue ==
  /\ ServersAreTrue
  /\ FilesSeen => FilesAreTrue /\ HostsAreTrue
  /\ started => Builtins \subseteq DOMAIN registry
=============================================================================
