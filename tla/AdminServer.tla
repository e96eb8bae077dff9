---------------------------- MODULE AdminServer ----------------------------
(***************************************************************************)
(* The Admin API (src/internal/admin): requests served side by side, each  *)
(* in a goroutine of its own, that log in, edit the configuration files    *)
(* and bring what they change into use.  fileMu is held while a file is    *)
(* read, edited and replaced; edits of nodes and fingerprints keep it until*)
(* the file is loaded again, settings are put to use after it is free, the *)
(* switch of a node and the log level before it is taken, and a reload     *)
(* does not take it at all.  A file is replaced by a rename, so it is      *)
(* never read half written.  Restarting the subscription updater after an  *)
(* edit or a reload is SubscriptionUpdater, what the fetch of a            *)
(* subscription may leave is SubscriptionPool; here a load takes an        *)
(* arbitrary one of those outcomes.                                        *)
(***************************************************************************)
EXTENDS Integers, Sequences, ConfigFiles, LoginLimiter

CONSTANTS Handlers,     \* goroutines serving requests
          Ips,          \* addresses logins come from
          Free,         \* no handler holds fileMu
          Listings,     \* bound: what a source may list, nodes with their servers
          Home,         \* the server of a static node
          Unnamed,      \* a request that names no server
          FirstDisk,    \* the files before the first start
          Workloads,    \* bound: [requests |-> S, most |-> n], what may be asked
          Faults,       \* the disk may fail and the process may die
          MaxRestarts,  \* bound
          MaxNow        \* bound on the clock

ASSUME FilesAssumption == FirstDisk = [s \in Sections |-> FirstDisk[s]]
ASSUME FreeAssumption == Free \notin Handlers
ASSUME HandlersAssumption == IsFiniteSet(Handlers)

VARIABLES
    disk,       \* what the files hold, by section
    running,    \* what the process works with, by section
    up,         \* the process runs
    fileMu,     \* the handler that holds it, or Free
    stage,      \* where each handler is
    job,        \* the request it serves
    copy,       \* the file it read
    keys,       \* server:port whose metadata it edits
    todo,       \* the sections a reload has yet to load
    answer,     \* what it last answered
    entries,    \* the limiter's table
    now,        \* the clock
    raced,      \* whether another request had a hand in the same section
    guesses,    \* wrong passwords of an address since a login or a restart
    workload, served, restarts

handling == <<stage, job, copy, keys, todo, answer>>
logins == <<entries, guesses>>
bounds == <<workload, served, restarts>>
vars == <<disk, running, up, fileMu, handling, logins, now, raced, bounds>>

NoJob == [kind |-> "none"]
ReloadOrder == <<"fingerprints", "nodes", "health", "proxy", "traffic">>
NodeEdits == {"addPool", "updatePool", "deletePool", "metadata",
              "updateNode", "deleteNode"}
FingerprintEdits == {"addFingerprint", "deleteFingerprint"}
Settings == {"set", "addRule", "keep"}
Edits == NodeEdits \cup FingerprintEdits \cup Settings \cup {"enable"}

Section(r) ==
    CASE r.kind \in NodeEdits \cup {"enable"} -> "nodes"
      [] r.kind \in FingerprintEdits -> "fingerprints"
      [] r.kind \in {"addRule", "keep"} -> "traffic"
      [] r.kind = "set" -> r.section

\* Node and fingerprint edits load what they saved before they free fileMu.
LoadsUnderLock(r) == r.kind \in NodeEdits \cup FingerprintEdits

-----------------------------------------------------------------------------
(* Pools at run time: the configuration and the nodes in use, each with    *)
(* the switch of its own that isNodeEnabled prefers to the list, and the   *)
(* server it is at: other nodes may be at the same.                        *)

On(pool, n) ==
    IF pool.own[n] = "unset" THEN n \notin pool.config.disabled
                             ELSE pool.own[n] # "off"

\* aliasForNode: the name of the server outranks the names of the node.
AliasesOf(pool, n) ==
    IF pool.at[n] \in DOMAIN pool.config.serverAliases
    THEN {pool.config.serverAliases[pool.at[n]]}
    ELSE {a \in DOMAIN pool.config.aliases : pool.config.aliases[a] = n}

LabelOf(pool, n) ==
    IF pool.at[n] \in DOMAIN pool.config.serverLabels
    THEN pool.config.serverLabels[pool.at[n]]
    ELSE IF n \in DOMAIN pool.config.labels THEN pool.config.labels[n] ELSE Nothing

Fresh(listing) == [own |-> [n \in DOMAIN listing |-> "unset"], at |-> listing]

NoNodes == [own |-> <<>>, at |-> <<>>]

NodesOf(pool) == [own |-> pool.own, at |-> pool.at]

IsSubscription(pools, p) ==
    p \in DOMAIN pools /\ pools[p].config.source = "subscription"

\* The pools whose nodes a load may keep when the fetch fails: the one of that
\* name, or, all with the same url, any other.
Previous(pools, p) ==
    IF IsSubscription(pools, p) THEN {p}
                                ELSE {q \in DOMAIN pools : IsSubscription(pools, q)}

\* The nodes a pool may come out of a load with: those fetched or cached, or
\* after a failure those it had, or none.
Built(pools, p, config) ==
    IF config.source = "static"
    THEN {[own |-> config.nodes, at |-> [n \in DOMAIN config.nodes |-> Home[n]]]}
    ELSE LET kept == {q \in Previous(pools, p) : DOMAIN pools[q].own # {}}
         IN  {Fresh(l) : l \in Listings}
                 \cup (IF Previous(pools, p) \subseteq kept /\ kept # {}
                       THEN {} ELSE {NoNodes})
                 \cup {NodesOf(pools[q]) : q \in kept}

\* One pool no dialer can be made for stops the load of them all.
Loads(file) ==
    \A p \in DOMAIN file : \A n \in DOMAIN file[p].nodes :
        file[p].source = "static" => file[p].nodes[n] # "unusable"

Loaded(file, pools) ==
    LET built(p) == Built(pools, p, file[p])
    IN  {[p \in DOMAIN file |->
             [config |-> file[p], own |-> nodes[p].own, at |-> nodes[p].at]] :
            nodes \in {f \in [DOMAIN file -> UNION {built(p) : p \in DOMAIN file}] :
                          \A p \in DOMAIN file : f[p] \in built(p)}}

-----------------------------------------------------------------------------
(* A handler takes a request, answers it, and is free for the next one.    *)

Go(h, s) == stage' = [stage EXCEPT ![h] = s]

\* On to the next step with what was read.
Proceed(h, s) == Go(h, s) /\ UNCHANGED <<answer, job, copy, keys>>

Answer(h, a) ==
    /\ Go(h, "idle")
    /\ answer' = [answer EXCEPT ![h] = a]
    /\ job' = [job EXCEPT ![h] = NoJob]
    /\ copy' = [copy EXCEPT ![h] = FirstDisk]
    /\ keys' = [keys EXCEPT ![h] = {}]

Unlocked(h) == IF fileMu = h THEN Free ELSE fileMu

\* The sections a request changes in the running process.
Touches(r) ==
    CASE r.kind \in Edits -> {Section(r)}
      [] r.kind = "reload" -> Sections \ {"log"}
      [] OTHER -> {}

Races(r, q) ==
    /\ Touches(r) \cap Touches(q) # {}
    /\ ~(LoadsUnderLock(r) /\ LoadsUnderLock(q))

Busy == {h \in Handlers : stage[h] # "idle"}

FirstStage(r) ==
    CASE r.kind \in {"login", "refresh", "reload"} -> r.kind
      [] r.kind = "enable" \/ (r.kind = "set" /\ r.section = "log") -> "switch"
      [] OTHER -> "lock"

Take(h, r) ==
    /\ up /\ stage[h] = "idle" /\ served < workload.most
    /\ served' = served + 1
    /\ job' = [job EXCEPT ![h] = r]
    /\ Go(h, FirstStage(r))
    /\ todo' = [todo EXCEPT ![h] = IF r.kind = "reload" THEN ReloadOrder ELSE <<>>]
    /\ answer' = [answer EXCEPT ![h] = "none"]
    /\ LET rivals == {g \in Busy : Races(r, job[g])}
       IN  raced' = [g \in Handlers |->
                        IF g = h THEN rivals # {} ELSE raced[g] \/ g \in rivals]
    /\ UNCHANGED <<disk, running, up, fileMu, copy, keys, logins, now, workload,
                   restarts>>

\* SetNodeEnabled and SetLogLevel come before the file.
SwitchNode(h) ==
    LET r == job[h]
        pools == running["nodes"]
    IN  /\ stage[h] = "switch" /\ r.kind = "enable"
        /\ IF r.pool \in DOMAIN pools /\ r.node \in DOMAIN pools[r.pool].own
           THEN /\ running' = [running EXCEPT !["nodes"][r.pool] =
                        [config |-> NodeEnabled(@.config, r.node, r.on),
                         own    |-> [@.own EXCEPT ![r.node] = Switch(r.on)],
                         at     |-> @.at]]
                /\ Proceed(h, "lock")
           ELSE Answer(h, "error") /\ UNCHANGED running
        /\ UNCHANGED <<disk, up, fileMu, todo, logins, now, raced, bounds>>

SwitchLog(h) ==
    /\ stage[h] = "switch" /\ job[h].kind = "set"
    /\ running' = [running EXCEPT !["log"] = job[h].value]
    /\ Proceed(h, "lock")
    /\ UNCHANGED <<disk, up, fileMu, todo, logins, now, raced, bounds>>

-----------------------------------------------------------------------------
(* The edit of a file.                                                     *)

\* The server:port the request names, or that of the node at run time.
KeysOf(r) ==
    LET pools == running["nodes"]
    IN  IF r.kind # "metadata" THEN {}
        ELSE IF r.server # Unnamed THEN {r.server}
        ELSE IF r.pool \in DOMAIN pools /\ r.node \in DOMAIN pools[r.pool].own
        THEN {pools[r.pool].at[r.node]} ELSE {}

\* Mutated form: the file is read without fileMu.
LockNothing(h) ==
    /\ stage[h] = "lock" /\ fileMu = Free
    /\ copy' = [copy EXCEPT ![h] = disk]
    /\ keys' = [keys EXCEPT ![h] = KeysOf(job[h])]
    /\ Go(h, "edit")
    /\ UNCHANGED <<disk, running, up, fileMu, job, todo, answer, logins, now, raced,
                   bounds>>

Lock(h) ==
    /\ stage[h] = "lock" /\ fileMu = Free
    /\ fileMu' = h
    /\ copy' = [copy EXCEPT ![h] = disk]
    /\ keys' = [keys EXCEPT ![h] = KeysOf(job[h])]
    /\ Go(h, "edit")
    /\ UNCHANGED <<disk, running, up, job, todo, answer, logins, now, raced, bounds>>

\* Mutated form: the early return forgets the lock.
EditRefusedLocked(h) ==
    /\ stage[h] = "edit"
    /\ Faults \/ Refused(job[h], copy[h][Section(job[h])], keys[h])
    /\ Answer(h, "error")
    /\ UNCHANGED <<disk, running, up, fileMu, todo, logins, now, raced, bounds>>

\* The file cannot be read or does not allow the edit.
EditRefused(h) ==
    /\ stage[h] = "edit"
    /\ Faults \/ Refused(job[h], copy[h][Section(job[h])], keys[h])
    /\ Answer(h, "error")
    /\ fileMu' = Unlocked(h)
    /\ UNCHANGED <<disk, running, up, todo, logins, now, raced, bounds>>

\* The edited file takes the place of the old one.
Saved(h) ==
    LET changed == Section(job[h])
    IN  [s \in Sections |->
            IF s = changed THEN Edited(job[h], copy[h][s], keys[h])
            ELSE IF FileOf(s) = FileOf(changed) THEN copy[h][s]
            ELSE disk[s]]

Save(h) ==
    LET r == job[h]
    IN  /\ stage[h] = "edit"
        /\ ~Refused(r, copy[h][Section(r)], keys[h])
        /\ disk' = Saved(h)
        /\ fileMu' = IF LoadsUnderLock(r) THEN fileMu ELSE Unlocked(h)
        /\ CASE LoadsUnderLock(r) -> Proceed(h, "load")
             [] FirstStage(r) = "switch" -> Answer(h, "ok")
             [] OTHER -> /\ Go(h, "apply")
                         /\ copy' = [copy EXCEPT ![h] = Saved(h)]
                         /\ UNCHANGED <<answer, job, keys>>
        /\ UNCHANGED <<running, up, todo, logins, now, raced, bounds>>

\* LoadFromFile of the manager, or of the fingerprints, or UpdateConfig and its
\* likes: what a section of the file comes to in the running process.
Use(section, value) ==
    IF section = "nodes"
    THEN /\ Loads(value)
         /\ \E new \in Loaded(value, running["nodes"]) :
                running' = [running EXCEPT !["nodes"] = new]
    ELSE running' = [running EXCEPT ![section] = value]

\* Pools and fingerprints are loaded from the file just saved.
LoadSaved(h) ==
    LET section == Section(job[h])
    IN  /\ stage[h] = "load"
        /\ Use(section, disk[section])
        /\ Answer(h, "ok")
        /\ fileMu' = Unlocked(h)
        /\ UNCHANGED <<disk, up, todo, logins, now, raced, bounds>>

\* Pools that cannot be loaded leave the file changed and the old ones running.
LoadFails(h) ==
    /\ stage[h] = "load"
    /\ Faults \/ (Section(job[h]) = "nodes" /\ ~Loads(disk["nodes"]))
    /\ Answer(h, "error")
    /\ fileMu' = Unlocked(h)
    /\ UNCHANGED <<disk, running, up, todo, logins, now, raced, bounds>>

\* Settings come into use after fileMu is free, as this request saved them.
Apply(h) ==
    LET section == Section(job[h])
    IN  /\ stage[h] = "apply"
        /\ Use(section, copy[h][section])
        /\ Answer(h, "ok")
        /\ UNCHANGED <<disk, up, fileMu, todo, logins, now, raced, bounds>>

-----------------------------------------------------------------------------
(* Reload of every file, section by section, and refresh of one pool.      *)

ReloadRead(h) ==
    /\ stage[h] = "reload" /\ todo[h] # <<>>
    /\ copy' = [copy EXCEPT ![h] = disk]
    /\ Go(h, "reloading")
    /\ UNCHANGED <<disk, running, up, fileMu, job, keys, todo, answer, logins, now,
                   raced, bounds>>

\* A section that cannot be read or loaded is skipped and remembered.
ReloadSkip(h) ==
    /\ stage[h] = "reloading"
    /\ Faults \/ (Head(todo[h]) = "nodes" /\ ~Loads(copy[h]["nodes"]))
    /\ job' = [job EXCEPT ![h] = [kind |-> "reload", failed |-> TRUE]]
    /\ todo' = [todo EXCEPT ![h] = Tail(@)]
    /\ Go(h, "reload")
    /\ UNCHANGED <<disk, running, up, fileMu, copy, keys, answer, logins, now, raced,
                   bounds>>

ReloadApply(h) ==
    LET section == Head(todo[h])
    IN  /\ stage[h] = "reloading"
        /\ Use(section, copy[h][section])
        /\ todo' = [todo EXCEPT ![h] = Tail(@)]
        /\ Go(h, "reload")
        /\ UNCHANGED <<disk, up, fileMu, job, copy, keys, answer, logins, now, raced,
                       bounds>>

ReloadEnds(h) ==
    /\ stage[h] = "reload" /\ todo[h] = <<>>
    /\ Answer(h, IF job[h].failed THEN "error" ELSE "ok")
    /\ UNCHANGED <<disk, running, up, fileMu, todo, logins, now, raced, bounds>>

\* RefreshSubscription: new entries, or an error and the entries there were.
Refresh(h) ==
    LET p == job[h].pool
    IN  /\ stage[h] = "refresh"
        /\ \/ /\ IsSubscription(running["nodes"], p)
              /\ \E l \in Listings :
                    running' = [running EXCEPT !["nodes"][p] =
                        [config |-> @.config, own |-> Fresh(l).own, at |-> l]]
              /\ Answer(h, "ok")
           \/ Answer(h, "error") /\ UNCHANGED running
        /\ UNCHANGED <<disk, up, fileMu, todo, logins, now, raced, bounds>>

-----------------------------------------------------------------------------
(* Logins.                                                                 *)

LoginAllowed(h) ==
    LET ip == job[h].ip
    IN  /\ stage[h] = "login"
        /\ IF Locked(Known(entries, ip), now)
           THEN Answer(h, "error") /\ UNCHANGED entries
           ELSE /\ entries' = AfterAllow(entries, ip, now)
                /\ Proceed(h, "password")
        /\ UNCHANGED <<disk, running, up, fileMu, todo, guesses, now, raced, bounds>>

NoGuesses == [count |-> 0, since |-> 0]

PasswordCompared(h) ==
    LET ip == job[h].ip
    IN  /\ stage[h] = "password"
        /\ IF job[h].right
           THEN /\ entries' = AfterSuccess(entries, ip)
                /\ guesses' = [guesses EXCEPT ![ip] = NoGuesses]
                /\ Answer(h, "ok")
           ELSE /\ entries' = AfterFailure(entries, ip, now)
                /\ guesses' = [guesses EXCEPT ![ip] =
                        [count |-> @.count + 1,
                         since |-> IF @.count = 0 THEN now ELSE @.since]]
                /\ Answer(h, "error")
        /\ UNCHANGED <<disk, running, up, fileMu, todo, now, raced, bounds>>

Tick ==
    /\ now < MaxNow
    /\ DOMAIN entries # {}
    /\ now' = now + 1
    /\ UNCHANGED <<disk, running, up, fileMu, handling, logins, raced, bounds>>

-----------------------------------------------------------------------------
(* The process.                                                            *)

\* A start reads every file; pools that do not load end it at once.
Started ==
    IF Loads(disk["nodes"])
    THEN /\ \E pools \in Loaded(disk["nodes"], <<>>) :
                running' = [disk EXCEPT !["nodes"] = pools]
         /\ up' = TRUE
    ELSE UNCHANGED running /\ up' = FALSE

Restart ==
    /\ Faults /\ up /\ restarts < MaxRestarts
    /\ restarts' = restarts + 1
    /\ Started
    /\ fileMu' = Free
    /\ stage' = [h \in Handlers |-> "idle"]
    /\ job' = [h \in Handlers |-> NoJob]
    /\ copy' = [h \in Handlers |-> FirstDisk]
    /\ keys' = [h \in Handlers |-> {}]
    /\ todo' = [h \in Handlers |-> <<>>]
    /\ answer' = [h \in Handlers |-> "none"]
    /\ raced' = [h \in Handlers |-> FALSE]
    /\ entries' = <<>>
    /\ guesses' = [ip \in Ips |-> NoGuesses]
    /\ UNCHANGED <<disk, now, workload, served>>

Init ==
    /\ disk = FirstDisk
    /\ \E pools \in Loaded(disk["nodes"], <<>>) :
            running = [disk EXCEPT !["nodes"] = pools]
    /\ up = TRUE
    /\ fileMu = Free
    /\ stage = [h \in Handlers |-> "idle"]
    /\ job = [h \in Handlers |-> NoJob]
    /\ copy = [h \in Handlers |-> FirstDisk]
    /\ keys = [h \in Handlers |-> {}]
    /\ todo = [h \in Handlers |-> <<>>]
    /\ answer = [h \in Handlers |-> "none"]
    /\ entries = <<>>
    /\ now = 1
    /\ raced = [h \in Handlers |-> FALSE]
    /\ guesses = [ip \in Ips |-> NoGuesses]
    /\ workload \in Workloads
    /\ served = 0
    /\ restarts = 0

\* What a handler does with the request it has.
Serve(h) ==
    \/ SwitchNode(h) \/ SwitchLog(h)
    \/ Lock(h) \/ EditRefused(h) \/ Save(h)
    \/ LoadSaved(h) \/ LoadFails(h) \/ Apply(h)
    \/ ReloadRead(h) \/ ReloadSkip(h) \/ ReloadApply(h) \/ ReloadEnds(h)
    \/ Refresh(h)
    \/ LoginAllowed(h) \/ PasswordCompared(h)

Next ==
    \/ \E h \in Handlers : \/ Serve(h)
                           \/ \E r \in workload.requests : Take(h, r)
    \/ Tick
    \/ Restart

Spec == Init /\ [][Next]_vars /\ \A h \in Handlers : WF_vars(Serve(h))

-----------------------------------------------------------------------------
(* Properties.                                                             *)

TypeOK ==
    /\ \A s \in Sections :
         CASE s = "nodes" ->
                /\ DOMAIN disk[s] \cup DOMAIN running[s] \subseteq Pools
                /\ \A p \in DOMAIN disk[s] : IsPoolConfig(disk[s][p])
                /\ \A p \in DOMAIN running[s] :
                     /\ IsPoolConfig(running[s][p].config)
                     /\ IsPartialFun(running[s][p].own, Nodes, {"unset", "on", "off"})
                     /\ IsPartialFun(running[s][p].at, Nodes, Servers)
           [] s = "fingerprints" -> {disk[s], running[s]} \subseteq SUBSET Fingerprints
           [] s = "traffic" ->
                {disk[s], running[s]} \subseteq [rules : SUBSET Rules, keep : Values]
           [] OTHER -> {disk[s], running[s]} \subseteq Values
    /\ fileMu \in Handlers \cup {Free}
    /\ \A h \in Handlers : stage[h] \in {"idle", "switch", "lock", "edit", "load",
            "apply", "reload", "reloading", "refresh", "login", "password"}
    /\ \A ip \in DOMAIN entries : ip \in Ips /\ entries[ip] \in Entry

\* No alias is on two servers, and no node has two aliases by its name.
OneEach(config) ==
    /\ \A s, t \in DOMAIN config.serverAliases :
           config.serverAliases[s] = config.serverAliases[t] => s = t
    /\ \A a, b \in DOMAIN config.aliases :
           config.aliases[a] = config.aliases[b] => a = b

\* Whatever servers the requests name, those of other nodes, those a node has
\* left and those that several share: no run of edits puts an alias on a second
\* server or leaves a node a second one.  Only a pool that is sent in one piece,
\* which nobody checks, may be ambiguous.  handleSubscriptionNodeConfig
AliasesKept ==
    \A p \in DOMAIN disk["nodes"] \cap DOMAIN disk'["nodes"] :
        \/ OneEach(disk["nodes"][p]) => OneEach(disk'["nodes"][p])
        \/ \E h \in Handlers : /\ stage[h] = "edit" /\ job[h].kind = "updatePool"
                               /\ job[h].newName = p

AliasesUnambiguous == [][AliasesKept]_vars

\* Whatever the order of requests and ticks, an address gets no more wrong
\* passwords compared than the limit, and one for each further handler that
\* passed allow before the lock fell, in every span as short as the window or
\* the lock.  loginLimiter
GuessesBounded ==
    LET span == IF Window + 1 < Lockout THEN Window + 1 ELSE Lockout
        most == MaxFailures + Cardinality(Handlers) - 1
    IN  \A ip \in Ips :
            guesses[ip].count <= most * (1 + (now - guesses[ip].since) \div span)

\* No edit is lost: what a request makes of a file it makes of the file as it
\* is when it is replaced, not as it was when some other edit had yet to come.
\* fileMu
EditsSerial ==
    [][disk' # disk =>
        \E h \in Handlers :
            /\ stage[h] = "edit"
            /\ disk' = [disk EXCEPT ![Section(job[h])] = Edited(job[h], @, keys[h])]
      ]_vars

\* What an edit that was answered with success stands for.
InUse(section) ==
    IF section = "nodes"
    THEN /\ DOMAIN running["nodes"] = DOMAIN disk["nodes"]
         /\ \A p \in DOMAIN disk["nodes"] :
                running["nodes"][p].config = disk["nodes"][p]
    ELSE running[section] = disk[section]

\* Every node at the server the request meant goes by the alias, and the node
\* it named by the alias and the label, unless they stay behind those of the
\* server it is at, which the request did not mean.
MetadataInUse(pool, r, meant) ==
    LET behind(n, names) == pool.at[n] \in DOMAIN names \ meant
    IN  \A n \in DOMAIN pool.own :
            /\ pool.at[n] \in meant /\ r.alias # Nothing =>
                   AliasesOf(pool, n) = {r.alias}
            /\ n = r.node /\ ~ behind(n, pool.config.serverAliases) =>
                   AliasesOf(pool, n) = {r.alias} \ {Nothing}
            /\ n = r.node /\ ~ behind(n, pool.config.serverLabels) =>
                   LabelOf(pool, n) = r.label

\* The node, if it is there, and the file have the switch.  The nodes that the
\* file lists for a subscription are no nodes of its source.
SwitchInUse(r) ==
    LET pool == running["nodes"][r.pool]
        file == disk["nodes"][r.pool]
    IN  /\ /\ r.node \in DOMAIN pool.own
           /\ pool.config.source = "static" \/ r.node \notin DOMAIN pool.config.nodes
           => On(pool, r.node) = r.on
        /\ IF r.node \in DOMAIN file.nodes
           THEN file.nodes[r.node] \in {"unusable", Switch(r.on)}
           ELSE (r.node \notin file.disabled) = r.on

Done(r, meant) ==
    /\ r.kind = "enable" => SwitchInUse(r)
    /\ r.kind = "metadata" => MetadataInUse(running["nodes"][r.pool], r, meant)
    /\ r.kind \in Edits \ {"enable"} => InUse(Section(r))
    /\ r.kind = "reload" => \A s \in Sections \ {"log"} : InUse(s)

\* A request answered with success has brought file and process together in
\* what it changed: an edit of nodes or fingerprints whatever other edits of
\* them it met, any other request unless one that changes the same section
\* overlapped with it.
AnswerMeansDone ==
    [][\A h \in Handlers : \A r \in {job[h]}, meant \in {keys[h]} :
        stage[h] # "idle" /\ answer'[h] = "ok" /\ ~raced[h] => Done(r, meant)']_vars

\* Every request is answered: no error path keeps fileMu, no handler waits for
\* another for ever.
Answered == \A h \in Handlers : stage[h] # "idle" ~> stage[h] = "idle"

=============================================================================
