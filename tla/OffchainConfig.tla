--------------------------- MODULE OffchainConfig ---------------------------
(***************************************************************************)
(* The plugin's configuration cache (offchain-plugin/src/config) and its   *)
(* one reader, the commit loop's get_data (logic_provider.rs).             *)
(*                                                                         *)
(* The node operator writes offchain storage through RPC, outside the      *)
(* plugin's mutex: a comma-joined list of key names under "keys" and a     *)
(* value under each name.  service::start builds the in-memory config map  *)
(* with get_config, which retries every 15 s until the keystore has a      *)
(* public key and until "keys" can be read; it then joins run_service with *)
(* schedule_config_update, which rebuilds the map every interval.          *)
(* build_offchain_config reads "keys" once, takes the config lock, and     *)
(* walks the names in reverse with one storage read (an await) per name,   *)
(* so operator writes interleave with the walk.  A run_service tick locks  *)
(* the config for get_data, which reads the file named by local_file_path. *)
(*                                                                         *)
(* Values are paths; what reading a path gives is the constant FileKind.   *)
(***************************************************************************)
EXTENDS Naturals, Sequences, SequencesExt

CONSTANTS
    ConfigKeys,     \* key names the operator may list
    LocalFilePath,  \* JSON_PATH_KEY, "local_file_path"
    Paths,          \* values the operator may store
    FileKind,       \* [Paths -> {"text", "dir", "missing"}]: what File::open
                    \* and read_to_string meet at the path
    Absent,         \* no value in storage or in the map
    NotString,      \* a JSON value that is not a string
    MaxWrites,      \* operator writes explored
    MaxListLen      \* longest "keys" list explored

ASSUME /\ LocalFilePath \in ConfigKeys
       /\ FileKind \in [Paths -> {"text", "dir", "missing"}]
       /\ MaxWrites \in Nat /\ MaxListLen \in Nat

VARIABLES
    keysList,   \* the "keys" entry of offchain storage, a list or Absent
    stored,     \* offchain storage value under each key name
    hasKey,     \* the keystore holds a PUBLIC_KEY_TYPE_ID key
    writes,     \* operator writes so far
    config,     \* the in-memory config map (Arc<Mutex<Map>>)
    startPc,    \* service::start: "keyInfo", "offchainData" or "running"
    scan,       \* build_offchain_config in progress: who runs it and the
                \* names still to read; by = "none" when the lock is free
    svc,        \* run_service: "ok" or "panicked"
    usedPath    \* the path whose file the last commit hashed, or Absent

vars == <<keysList, stored, hasKey, writes, config, startPc, scan, svc, usedPath>>

KeyLists == UNION {[1..n -> ConfigKeys] : n \in 0..MaxListLen}

\* The names build_offchain_config found in the last list it read.
ListedKeys == IF keysList = Absent THEN {} ELSE ToSet(keysList)

TypeOK ==
    /\ keysList \in KeyLists \cup {Absent}
    /\ stored \in [ConfigKeys -> Paths \cup {Absent}]
    /\ hasKey \in BOOLEAN
    /\ writes \in 0..MaxWrites
    /\ config \in [ConfigKeys -> Paths \cup {Absent}]
    /\ startPc \in {"keyInfo", "offchainData", "running"}
    /\ scan \in [by : {"none", "start", "update"}, todo : KeyLists]
    /\ svc \in {"ok", "panicked"}
    /\ usedPath \in Paths \cup {Absent}

Init ==
    /\ keysList \in KeyLists \cup {Absent}
    /\ stored \in [ConfigKeys -> Paths \cup {Absent}]
    /\ hasKey \in BOOLEAN
    /\ writes = 0
    /\ config = [k \in ConfigKeys |-> Absent]
    /\ startPc = "keyInfo"
    /\ scan = [by |-> "none", todo |-> <<>>]
    /\ svc = "ok"
    /\ usedPath = Absent

-----------------------------------------------------------------------------
(* The environment: offchain_localStorageSet and key insertion over RPC,  *)
(* and the loading of a config file into storage.                        *)
OperatorSetValue ==
    /\ writes < MaxWrites
    /\ \E k \in ConfigKeys, p \in Paths : stored' = [stored EXCEPT ![k] = p]
    /\ writes' = writes + 1
    /\ UNCHANGED <<keysList, hasKey, config, startPc, scan, svc, usedPath>>

OperatorSetKeys ==
    /\ writes < MaxWrites
    /\ \E l \in KeyLists : keysList' = l
    /\ writes' = writes + 1
    /\ UNCHANGED <<stored, hasKey, config, startPc, scan, svc, usedPath>>

(* set_offchain_config: copy a JSON config file into storage.  A missing   *)
(* or unreadable file, or one that is not a JSON object, writes nothing.    *)
(* Otherwise the entries are set one by one and the first value that is   *)
(* not a string ends the loop (as_str()? in and_then) with JSONTypeError,  *)
(* the earlier ones written.  serde_json's map iterates in name order, and *)
(* the names are model values, so the entries written before the failure   *)
(* can be any subset of the string ones; without a failure, all of them.   *)
SetOffchainConfig ==
    /\ writes < MaxWrites
    /\ \E json \in [ConfigKeys -> Paths \cup {Absent, NotString}],
          jsonKeys \in KeyLists \cup {Absent, NotString} :
          LET strs == {k \in ConfigKeys : json[k] \in Paths}
              fails == NotString \in {jsonKeys} \cup {json[k] : k \in ConfigKeys}
          IN \E done \in SUBSET strs, keysDone \in BOOLEAN :
                /\ keysDone => jsonKeys \in KeyLists
                /\ ~fails => done = strs /\ keysDone = (jsonKeys \in KeyLists)
                /\ stored' = [k \in ConfigKeys |-> IF k \in done THEN json[k] ELSE stored[k]]
                /\ keysList' = IF keysDone THEN jsonKeys ELSE keysList
    /\ writes' = writes + 1
    /\ UNCHANGED <<hasKey, config, startPc, scan, svc, usedPath>>

InsertKey ==
    /\ ~hasKey
    /\ hasKey' = TRUE
    /\ UNCHANGED <<keysList, stored, writes, config, startPc, scan, svc, usedPath>>

-----------------------------------------------------------------------------
(* get_public_key: Ok with the first sr25519 key of PUBLIC_KEY_TYPE_ID,   *)
(* PubKeyNotSet when the keystore has none.                                *)
GetPublicKey == hasKey

(* get_key_info: get_public_key until the keystore has a key; a miss      *)
(* sleeps 15 s and retries, which leaves the state as it is.              *)
GetKeyInfo ==
    /\ startPc = "keyInfo"
    /\ GetPublicKey
    /\ startPc' = "offchainData"
    /\ UNCHANGED <<keysList, stored, hasKey, writes, config, scan, svc, usedPath>>

(* set_offchain_data: start's loop, retried every 15 s until a walk       *)
(* succeeds.                                                               *)
StartWaitsForConfig == startPc = "offchainData"

(* schedule_config_update: joined with run_service after start, it ticks *)
(* while the join lives.                                                   *)
UpdateTaskRunning == startPc = "running" /\ svc = "ok"

(* Which walk may begin.                                                   *)
MayWalk(by) ==
    \/ by = "start" /\ StartWaitsForConfig
    \/ by = "update" /\ UpdateTaskRunning

(* Fault variant of BuildConfigBegin without the config lock: a walk      *)
(* starts while another is still reading, and both walks' reads pend.     *)
BuildConfigBeginUnlocked(by) ==
    /\ MayWalk(by)
    /\ keysList # Absent
    /\ scan' = [by |-> by, todo |-> scan.todo \o Reverse(keysList)]
    /\ UNCHANGED <<keysList, stored, hasKey, writes, config, startPc, svc, usedPath>>

(* Fault variant of BuildConfigBegin: the reversed walk stops one name   *)
(* early and never reads the first listed name.                           *)
BuildConfigBeginSkipsOne(by) ==
    /\ scan.by = "none"
    /\ MayWalk(by)
    /\ keysList # Absent
    /\ scan' = [by |-> by, todo |-> SubSeq(Reverse(keysList), 1, Len(keysList) - 1)]
    /\ UNCHANGED <<keysList, stored, hasKey, writes, config, startPc, svc, usedPath>>

(* build_offchain_config up to the walk: read "keys" (an Err when it is   *)
(* missing, retried by set_offchain_data and only logged by the update     *)
(* task), split it, and take the config lock.  The update task ticks only  *)
(* after start has joined it.                                              *)
BuildConfigBegin(by) ==
    /\ scan.by = "none"
    /\ MayWalk(by)
    /\ keysList # Absent
    /\ scan' = [by |-> by, todo |-> Reverse(keysList)]
    /\ UNCHANGED <<keysList, stored, hasKey, writes, config, startPc, svc, usedPath>>

(* Fault variant of ExtractConfigValue: a name already in the map keeps  *)
(* its first value (an entry().or_insert in place of insert).             *)
ExtractConfigValueInsertOnce ==
    /\ scan.todo # <<>>
    /\ LET k == Head(scan.todo)
       IN config' = IF stored[k] = Absent \/ config[k] # Absent THEN config
                    ELSE [config EXCEPT ![k] = stored[k]]
    /\ scan' = [scan EXCEPT !.todo = Tail(@)]
    /\ UNCHANGED <<keysList, stored, hasKey, writes, startPc, svc, usedPath>>

(* One iteration of extract_config_values: a name whose value is missing  *)
(* is skipped; otherwise the value is inserted under the trimmed name.     *)
ExtractConfigValue ==
    /\ scan.todo # <<>>
    /\ LET k == Head(scan.todo)
       IN config' = IF stored[k] = Absent THEN config
                    ELSE [config EXCEPT ![k] = stored[k]]
    /\ scan' = [scan EXCEPT !.todo = Tail(@)]
    /\ UNCHANGED <<keysList, stored, hasKey, writes, startPc, svc, usedPath>>

(* get_keypair after get_config: config_account_id was just inserted from *)
(* the keystore's first key, so key_pair finds it while the key is there. *)
GetKeypair == hasKey

(* Fault variant of BuildConfigEnd: set_offchain_data's loop does not    *)
(* return on Ok and builds again.                                         *)
BuildConfigEndNoReturn ==
    /\ scan.by # "none"
    /\ scan.todo = <<>>
    /\ scan' = [by |-> "none", todo |-> <<>>]
    /\ UNCHANGED <<keysList, stored, hasKey, writes, config, startPc, svc, usedPath>>

(* The walk is over and the config lock released.  For start, get_config *)
(* then inserts config_account_id and get_keypair finds the pair, so the   *)
(* two loops start.                                                        *)
BuildConfigEnd ==
    /\ scan.by # "none"
    /\ scan.todo = <<>>
    /\ scan' = [by |-> "none", todo |-> <<>>]
    /\ startPc' = IF scan.by = "start" /\ GetKeypair THEN "running" ELSE startPc
    /\ UNCHANGED <<keysList, stored, hasKey, writes, config, svc, usedPath>>

(* get_data: None without a path or when File::open fails; the hash of   *)
(* the file when it reads as text; read_to_string(..).unwrap() panics on a *)
(* path that opens but does not read as UTF-8 text, such as a directory.   *)
GetData(p) ==
    CASE p = Absent                -> "none"
      [] FileKind[p] = "missing"   -> "none"
      [] FileKind[p] = "dir"       -> "panic"
      [] FileKind[p] = "text"      -> "hash"

(* A run_service tick up to the commit: lock the config (held by a walk   *)
(* of the update task) and get_data on local_file_path.  A panic ends the  *)
(* loop, and with it the joined update task.                               *)
ServiceTick ==
    /\ startPc = "running"
    /\ svc = "ok"
    /\ scan.by # "update"
    /\ LET p == config[LocalFilePath]
       IN \/ GetData(p) = "none" /\ UNCHANGED <<svc, usedPath>>
          \/ GetData(p) = "panic" /\ svc' = "panicked" /\ UNCHANGED usedPath
          \/ GetData(p) = "hash" /\ usedPath' = p /\ UNCHANGED svc
    /\ UNCHANGED <<keysList, stored, hasKey, writes, config, startPc, scan>>

Next ==
    \/ OperatorSetValue \/ OperatorSetKeys \/ SetOffchainConfig \/ InsertKey
    \/ GetKeyInfo
    \/ BuildConfigBegin("start") \/ BuildConfigBegin("update")
    \/ ExtractConfigValue \/ BuildConfigEnd
    \/ ServiceTick

(* Both loops run on tokio intervals and the start-up loops on 15 s       *)
(* sleeps, so each step the plugin can take is eventually taken.  The      *)
(* operator's writes get no fairness.                                      *)
(* A tick of run_service can be disabled by a walk holding the config     *)
(* lock; tokio's Mutex queues waiters in order, so a tick that keeps       *)
(* coming back to the lock gets it: strong fairness.                       *)
Spec ==
    /\ Init /\ [][Next]_vars
    /\ WF_vars(GetKeyInfo)
    /\ WF_vars(BuildConfigBegin("start")) /\ WF_vars(BuildConfigBegin("update"))
    /\ WF_vars(ExtractConfigValue) /\ WF_vars(BuildConfigEnd)
    /\ SF_vars(ServiceTick)

-----------------------------------------------------------------------------
(* The map agrees with storage on every listed name that has a value.    *)
ConfigCurrent ==
    \A k \in ListedKeys : stored[k] # Absent => config[k] = stored[k]

(* Start-up: once the keystore has a key and "keys" can be read, the      *)
(* retry loops of get_key_info and set_offchain_data end and the two      *)
(* loops of service::start run.                                           *)
StartupCompletes ==
    (hasKey /\ keysList # Absent) ~> startPc = "running"

(* "If some keys are missed, they will be collected in the next config    *)
(* updates" (build_offchain_config): once the operator stops writing, the *)
(* update task brings the map up to date with storage and keeps it so,    *)
(* although each walk reads storage name by name while writes interleave. *)
ConfigEventuallyCurrent ==
    <>[](startPc = "running" => ConfigCurrent)

(* End to end: once the operator stops writing, the commit loop hashes    *)
(* the file at the path now stored under a listed local_file_path.        *)
ServiceUsesCurrentPath ==
    <>[](/\ startPc = "running"
         /\ LocalFilePath \in ListedKeys
         /\ stored[LocalFilePath] # Absent
         /\ FileKind[stored[LocalFilePath]] = "text"
         => usedPath = stored[LocalFilePath])

(* Off-chain agent errors are logged and retried on the next tick, never  *)
(* fatal (spec): the commit loop survives whatever path it is given.      *)
ServiceNeverPanics == svc = "ok"
====
