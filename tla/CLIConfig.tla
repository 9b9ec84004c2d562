------------------------------ MODULE CLIConfig ------------------------------
(* The configuration file of the doomsday command: cmd/cli_config.go, and    *)
(* what each command does to it between loadConfig and saveConfig in        *)
(* main.go. Commands run side by side and may be killed. A saved file is    *)
(* truncated and then written at once; an empty file is an empty            *)
(* configuration. The file is changed by these commands alone.              *)
EXTENDS Integers, Sequences

CONSTANTS
  Names, Addresses,
  Tokens,     \* what logins yield
  None,       \* no name, no token
  Processes,  \* commands running at one time
  Garbled     \* content that is not YAML

ASSUME ConfigAssumption == None \notin Names \union Tokens

VARIABLES
  file,
  pc,        \* of each process: idle, run, save, or write: the file is open
             \* and truncated
  cmd,       \* what it has done to its cliConf
  conf,      \* its cliConf
  stale,     \* history: another command has saved since it loaded
  lost,      \* history: "no" command was killed while saving or saved a stale
             \* configuration, "updates" were lost, or "all" may be
  meant      \* history: what the file would be if commands were atomic, as
             \* long as nothing is lost

vars == <<file, pc, cmd, conf, stale, lost, meant>>

Target == [name : Names, address : Addresses, token : Tokens \union {None}]
Config == [current : Names \union {None}, targets : Seq(Target)]
Empty == [current |-> None, targets |-> << >>]

ASSUME GarbledAssumption == Garbled \notin Config

\* The commands. show stands for those that only print targets, request for
\* those that only ask the server.
Command ==
  [op : {"create"}, name : Names, address : Addresses] \union
  [op : {"select", "delete"}, name : Names] \union
  [op : {"login"}, token : Tokens] \union
  [op : {"show", "request"}]
NoCommand == [op |-> "show"]

Has(c, name) == \E i \in DOMAIN c.targets : c.targets[i].name = name

\* Find returns the first target of a name.
Index(targets, name) ==
  CHOOSE i \in DOMAIN targets :
    /\ targets[i].name = name
    /\ \A j \in 1 .. i - 1 : targets[j].name # name

\* Faulty variant of Delete: the last target is dropped, not swapped first.
DeleteLast(targets, name) ==
  IF \E t \in DOMAIN targets : targets[t].name = name
  THEN SubSeq(targets, 1, Len(targets) - 1) ELSE targets

\* The target changes places with the last one, which is cut off.
Delete(targets, name) ==
  IF \E t \in DOMAIN targets : targets[t].name = name
  THEN LET last == Len(targets)
       IN  SubSeq([targets EXCEPT ![Index(targets, name)] = targets[last]], 1, last - 1)
  ELSE targets

\* Deleted until there is no target of that name.
Without(targets, name) ==
  LET left[n \in 0 .. Len(targets)] ==
        IF n = 0 THEN targets ELSE Delete(left[n - 1], name)
  IN  left[Len(targets)]

Add(targets, target) == Append(Without(targets, target.name), target)

\* Whether a command gets as far as to change the configuration. main looks
\* up the target before those that talk to the server.
Allowed(c, k) ==
  CASE k.op = "select" -> Has(c, k.name)
    [] k.op = "show" -> c.current = None \/ Has(c, c.current)
    [] k.op \in {"login", "request"} -> Has(c, c.current)
    [] OTHER -> TRUE

\* createTarget, setTarget, deleteTarget and login.
Changed(c, k) ==
  CASE k.op = "create" ->
         [current |-> k.name,
          targets |-> Add(c.targets, [name |-> k.name, address |-> k.address, token |-> None])]
    [] k.op = "select" -> [c EXCEPT !.current = k.name]
    [] k.op = "delete" ->
         [current |-> IF c.current = k.name THEN None ELSE c.current,
          targets |-> Delete(c.targets, k.name)]
    [] k.op = "login" ->
         LET here == c.targets[Index(c.targets, c.current)]
         IN  [c EXCEPT !.targets = Add(@, [here EXCEPT !.token = k.token])]
    [] OTHER -> c

\* The same commands on a table of targets.
Meant(m, k) ==
  CASE k.op = "create" ->
         [current |-> k.name,
          table |-> [m.table EXCEPT ![k.name] = <<k.address, None>>]]
    [] k.op = "select" -> [m EXCEPT !.current = k.name]
    [] k.op = "delete" ->
         [current |-> IF m.current = k.name THEN None ELSE m.current,
          table |-> [m.table EXCEPT ![k.name] = << >>]]
    [] k.op = "login" -> [m EXCEPT !.table[m.current][2] = k.token]
    [] OTHER -> m

-----------------------------------------------------------------------------
NothingMeant == [current |-> None, table |-> [n \in Names |-> << >>]]

Init ==
  /\ file = Empty
  /\ pc = [p \in Processes |-> "idle"]
  /\ cmd = [p \in Processes |-> NoCommand]
  /\ conf = [p \in Processes |-> Empty]
  /\ stale = [p \in Processes |-> FALSE]
  /\ lost = "no"
  /\ meant = NothingMeant

\* Faulty variant of Load: the content is taken for what it should be.
LoadUnchecked(p) ==
  /\ pc[p] = "idle"
  /\ pc' = [pc EXCEPT ![p] = "run"]
  /\ conf' = [conf EXCEPT ![p] = file]
  /\ UNCHANGED <<file, cmd, stale, lost, meant>>

\* loadConfig. It creates a file that is not there.
Load(p) ==
  /\ pc[p] = "idle" /\ file # Garbled
  /\ pc' = [pc EXCEPT ![p] = "run"]
  /\ conf' = [conf EXCEPT ![p] = file]
  /\ UNCHANGED <<file, cmd, stale, lost, meant>>

LoadFails(p) == pc[p] = "idle" /\ file = Garbled /\ UNCHANGED vars

\* The process ends.
Done(p) ==
  /\ pc' = [pc EXCEPT ![p] = "idle"]
  /\ cmd' = [cmd EXCEPT ![p] = NoCommand]
  /\ conf' = [conf EXCEPT ![p] = Empty]

\* Run returns an error, also one of the server: nothing is saved.
RunFails(p) ==
  /\ pc[p] = "run"
  /\ \E k \in Command :
       Allowed(conf[p], k) => k.op \in {"create", "login", "request"}
  /\ Done(p)
  /\ stale' = [stale EXCEPT ![p] = FALSE]
  /\ UNCHANGED <<file, lost, meant>>

Run(p) ==
  /\ pc[p] = "run"
  /\ \E k \in Command :
       /\ Allowed(conf[p], k)
       /\ cmd' = [cmd EXCEPT ![p] = k]
       /\ conf' = [conf EXCEPT ![p] = Changed(@, k)]
  /\ pc' = [pc EXCEPT ![p] = "save"]
  /\ UNCHANGED <<file, stale, lost, meant>>

\* What is lost, with the histories that end with it.
Lose(what, saver) ==
  /\ lost' = IF lost = "all" THEN lost ELSE what
  /\ meant' = IF what = "no" THEN Meant(meant, cmd[saver]) ELSE NothingMeant
  /\ stale' = [q \in Processes |->
                 what = "no" /\ q # saver /\ (stale[q] \/ pc[q] # "idle")]

\* saveConfig opens the file with O_TRUNC, and this may be while another
\* process is between this and its write.
Truncate(p) ==
  /\ pc[p] = "save"
  /\ pc' = [pc EXCEPT ![p] = "write"]
  /\ file' = Empty
  /\ IF \E q \in Processes : pc[q] = "write"
     THEN Lose("all", p) ELSE UNCHANGED <<stale, lost, meant>>
  /\ UNCHANGED <<cmd, conf>>

\* The encoder writes from the start of the file. What another process has
\* written there and is longer is left behind the new end.
Write(p) ==
  /\ pc[p] = "write" /\ Done(p)
  /\ file' \in IF file \in {Empty, conf[p]} THEN {conf[p]} ELSE {conf[p], Garbled}
  /\ Lose(IF lost = "no" /\ ~stale[p] THEN "no" ELSE "updates", p)

\* A process that is killed before it truncates the file leaves no trace.
Kill(p) ==
  /\ pc[p] # "idle" /\ Done(p)
  /\ IF pc[p] = "write"
     THEN Lose("all", p)
     ELSE stale' = [stale EXCEPT ![p] = FALSE] /\ UNCHANGED <<lost, meant>>
  /\ UNCHANGED file

Next ==
  \E p \in Processes :
    \/ Load(p) \/ LoadFails(p) \/ Run(p) \/ RunFails(p)
    \/ Truncate(p) \/ Write(p) \/ Kill(p)

Spec == Init /\ [][Next]_vars

-----------------------------------------------------------------------------
(* Properties                                                              *)

TypeOK ==
  /\ file \in Config \union {Garbled}
  /\ pc \in [Processes -> {"idle", "run", "save", "write"}]
  /\ cmd \in [Processes -> Command]
  /\ conf \in [Processes -> Config]
  /\ stale \in [Processes -> BOOLEAN]
  /\ lost \in {"no", "updates", "all"}

NobodySaves == \A p \in Processes : pc[p] # "write"

\* Whatever updates commands lose that overlap, the file stays a valid one,
\* with distinct names and a current target that exists: only a command
\* killed between truncation and write, or two that save at the same time,
\* can destroy it (cli_config.go:44-61, 114-127).
SavesStayWhole ==
  NobodySaves /\ lost # "all" =>
    /\ file # Garbled
    /\ \A i, j \in DOMAIN file.targets :
         file.targets[i].name = file.targets[j].name => i = j
    /\ file.current # None => Has(file, file.current)

\* As long as no command saves what it loaded before another saved, and none
\* is killed while saving, the file is what the commands mean: each changes
\* its own target and no other, although Delete moves targets about and Add
\* deletes first, and one that fails changes nothing (main.go:128-140).
FileIsMeant ==
  NobodySaves /\ lost = "no" =>
    /\ file.current = meant.current
    /\ \A n \in Names :
         meant.table[n] =
           IF Has(file, n)
           THEN LET t == file.targets[Index(file.targets, n)] IN <<t.address, t.token>>
           ELSE << >>
=============================================================================
