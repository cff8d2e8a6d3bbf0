------------------------------- MODULE Config -------------------------------
(***************************************************************************)
(* Reading the configuration: files and the files they include, the values *)
(* that may be set once, the lists of modules and ports, at start-up and   *)
(* at every rehash. ServerConfig::LoadConf, DoInclude and Read, BindPorts. *)
(* A file is a sequence of <<tag, value>>; Texts has the characters.       *)
(***************************************************************************)
EXTENDS Naturals, Sequences, FiniteSets, SequencesExt, Relation

CONSTANTS
    CfFiles, CfMain,  \* the files, and the one the server is started with
    CfDisks,          \* contents the administrator may give the files
    CfEdits,          \* times the files are changed while the server runs
    CfNoName

ASSUME ConfigOK ==
    /\ CfMain \in CfFiles /\ CfEdits \in Nat
    /\ \A d \in CfDisks : DOMAIN d = CfFiles

VARIABLES
    cf_disk, cf_edits,
    cf_source,        \* history: the files config_data was read from
    cf_data,          \* config_data, in the order of insertion
    cf_name,          \* ServerName
    cf_mods,          \* module_names
    cf_added, cf_removed,  \* the file-scope lists of the same names
    cf_failed,        \* modules the last rehash could not load or unload (974, 972)
    cf_ports, cf_portsFailed,  \* Config->ports, and the ports BindPorts could not open
    cf_up             \* "down", "up", or how it ended: "exited", "crashed"

cf_vars == <<cf_disk, cf_edits, cf_source, cf_data, cf_name, cf_mods, cf_added, cf_removed,
             cf_failed, cf_ports, cf_portsFailed, cf_up>>

CfValuesIn(d, tag) == {x[2] : x \in {y \in ToSet(d) : y[1] = tag}}
CfEverIn(tag) == UNION {CfValuesIn(d[f], tag) : d \in CfDisks, f \in CfFiles}
CfEverModules == CfEverIn("module")
CfEverPorts == CfEverIn("bind")

ConfigTypeOK ==
    /\ cf_disk \in CfDisks /\ cf_edits \in 0 .. CfEdits
    /\ cf_mods \cup cf_added \cup cf_removed \cup cf_failed \subseteq CfEverModules
    /\ cf_ports \cup cf_portsFailed \subseteq CfEverPorts
    /\ cf_up \in {"down", "up", "exited", "crashed"}

ConfigInit ==
    /\ cf_disk \in CfDisks /\ cf_edits = 0 /\ cf_source = cf_disk /\ cf_data = <<>>
    /\ cf_name = CfNoName /\ cf_mods = {} /\ cf_added = {} /\ cf_removed = {}
    /\ cf_failed = {} /\ cf_ports = {} /\ cf_portsFailed = {} /\ cf_up = "down"

-----------------------------------------------------------------------------
(* LoadConf: one file inside another; a file may be opened once in all. *)

CfOpen(s, f) ==
    IF f \in s.seen THEN [s EXCEPT !.ok = FALSE]
    ELSE [s EXCEPT !.stack = Append(@, s.disk[f]), !.seen = @ \cup {f}]

\* ParseLine: an include is read before the rest of the file that has it.
CfParseLine(s) ==
    LET file == Last(s.stack)
        rest == [s EXCEPT !.stack = Append(Front(@), Tail(file))]
    IN IF file = <<>> THEN [s EXCEPT !.stack = Front(@)]
       ELSE IF file[1][1] = "include" THEN CfOpen(rest, file[1][2])
       ELSE [rest EXCEPT !.data = Append(@, file[1])]

CfLoad(disk) ==
    LET start == CfOpen([disk |-> disk, stack |-> <<>>, seen |-> {}, data |-> <<>>, ok |-> TRUE], CfMain)
        step(s, n) == IF s.ok /\ s.stack # <<>> THEN CfParseLine(s) ELSE s
        tags == FoldLeft(LAMBDA n, f : n + Len(disk[f]) + 1, 0, SetToSeq(CfFiles))
    IN FoldLeft(step, start, [n \in 1 .. tags |-> n])
CfLoads == [d \in CfDisks |-> CfLoad(d)]

-----------------------------------------------------------------------------
(* Read *)

\* CheckOnce, for the tags that must be there once; "server" stands for the others.
CfCount(data, tag) == Cardinality({i \in DOMAIN data : data[i][1] = tag})
CfCheckOnce(data) == CfCount(data, "server") = 1

CfFirst(data, tag, default) ==
    IF CfCount(data, tag) = 0 THEN default ELSE data[SelectInSeq(data, LAMBDA x : x[1] = tag)][2]

\* ValidateServerName: names differ but for their case, or by the dot that was appended.
CfSameName(a, b) == a.base = b.base /\ a.dot = b.dot
CfNameAllowed(new) == IF cf_name = CfNoName THEN TRUE ELSE CfSameName(cf_name, new)

\* InitModule, DoModule, DoneModule.
CfInitModule == [added |-> {}, removed |-> {}]
CfDoneModule(data) ==
    LET new == CfValuesIn(data, "module") IN
    [added |-> CfInitModule.added \cup (new \ cf_mods), removed |-> CfInitModule.removed \cup (cf_mods \ new)]

\* BindPorts: ports that are open already stay so, what is no longer there is closed.
CfOldPorts_all(data) == cf_ports  \* mutant: the copy keeps the ports that are still wanted
CfOldPorts(data) == cf_ports \ CfValuesIn(data, "bind")
CfBindPorts(data, failed) ==
    /\ failed \subseteq CfValuesIn(data, "bind") \ cf_ports
    /\ cf_portsFailed' = failed
    /\ cf_ports' = (cf_ports \cup (CfValuesIn(data, "bind") \ failed)) \ CfOldPorts(data)

\* The values set once, in the order of Values[]: the name is set before an empty diepass
\* is found.
CfSetValues(data) ==
    LET name == CfFirst(data, "server", CfNoName) IN
    IF ~CfCheckOnce(data) \/ ~CfNameAllowed(name) THEN UNCHANGED cf_name
    ELSE cf_name' = [name EXCEPT !.dot = TRUE]
CfValidates(data) ==
    /\ CfCheckOnce(data) /\ CfNameAllowed(CfFirst(data, "server", CfNoName))
    /\ CfFirst(data, "diepass", "") # ""

CfSetData(load) == cf_data' = load.data /\ cf_source' = cf_disk
CfModuleVars == <<cf_mods, cf_added, cf_removed, cf_failed>>
CfPortVars == <<cf_ports, cf_portsFailed>>

\* The modules the configuration no longer has are unloaded, then the new ones loaded.
CfChangeModules(data, failed) ==
    LET list == CfDoneModule(data)
        refuse == (list.removed \ cf_mods) \cup (list.added \cap (cf_mods \ list.removed))
    IN /\ failed \subseteq list.added \cup list.removed /\ refuse \subseteq failed
       /\ cf_added' = list.added /\ cf_removed' = list.removed /\ cf_failed' = failed
       /\ cf_mods' = (cf_mods \ (list.removed \ failed)) \cup (list.added \ failed)

-----------------------------------------------------------------------------
(* Actions *)

\* Read(true), BindPorts and LoadAllModules: any error ends the program.
CfStart ==
    /\ cf_up = "down"
    /\ LET load == CfLoads[cf_disk] IN
       \/ /\ load.ok /\ CfValidates(load.data)
          /\ CfSetData(load) /\ CfSetValues(load.data) /\ cf_up' = "up"
          /\ cf_mods' = CfValuesIn(load.data, "module") /\ UNCHANGED <<cf_added, cf_removed, cf_failed>>
          /\ \E failed \in SUBSET CfValuesIn(load.data, "bind") : CfBindPorts(load.data, failed)
       \/ /\ cf_up' = "exited"
          /\ UNCHANGED <<cf_data, cf_source, cf_name, CfModuleVars, CfPortVars>>
    /\ UNCHANGED <<cf_disk, cf_edits>>

\* cmd_rehash::Handle (a user asks) and InspIRCd::Rehash (SIGHUP): Read(false). config_data
\* is replaced as soon as the files could be parsed. The list of ports that could not be
\* opened is sent to the user, also when there is none.
CfRehashRefused ==
    /\ cf_up = "up"
    /\ LET load == CfLoads[cf_disk] IN
       /\ ~load.ok \/ ~CfValidates(load.data)
       /\ IF load.ok THEN CfSetData(load) /\ CfSetValues(load.data)
          ELSE UNCHANGED <<cf_data, cf_source, cf_name>>
    /\ UNCHANGED <<cf_disk, cf_edits, cf_up, CfModuleVars, CfPortVars>>
CfRehash(user) ==
    /\ cf_up = "up"
    /\ LET load == CfLoads[cf_disk] IN
       /\ load.ok /\ CfValidates(load.data)
       /\ CfSetData(load) /\ CfSetValues(load.data)
       /\ \E ports \in SUBSET CfValuesIn(load.data, "bind") :
             /\ CfBindPorts(load.data, ports)
             /\ IF ports # {} /\ ~user THEN cf_up' = "crashed" /\ UNCHANGED CfModuleVars
                ELSE /\ UNCHANGED cf_up
                     /\ \E mods \in SUBSET CfEverModules : CfChangeModules(load.data, mods)
    /\ UNCHANGED <<cf_disk, cf_edits>>

\* LOADMODULE and UNLOADMODULE.
CfLoadModule(m) ==
    /\ cf_up = "up" /\ m \notin cf_mods /\ cf_mods' = cf_mods \cup {m}
    /\ UNCHANGED <<cf_disk, cf_edits, cf_source, cf_data, cf_name, cf_added, cf_removed, cf_failed,
                   CfPortVars, cf_up>>
CfUnloadModule(m) ==
    /\ cf_up = "up" /\ m \in cf_mods /\ cf_mods' = cf_mods \ {m}
    /\ UNCHANGED <<cf_disk, cf_edits, cf_source, cf_data, cf_name, cf_added, cf_removed, cf_failed,
                   CfPortVars, cf_up>>

\* The administrator edits the files.
CfEdit ==
    /\ cf_edits < CfEdits /\ cf_edits' = cf_edits + 1 /\ cf_disk' \in CfDisks \ {cf_disk}
    /\ UNCHANGED <<cf_source, cf_data, cf_name, CfModuleVars, CfPortVars, cf_up>>

ConfigNext ==
    \/ CfStart \/ CfRehashRefused \/ CfEdit
    \/ \E user \in BOOLEAN : CfRehash(user)
    \/ \E m \in CfEverModules : CfLoadModule(m) \/ CfUnloadModule(m)

ConfigSpec == ConfigInit /\ [][ConfigNext]_cf_vars

-----------------------------------------------------------------------------
(* Properties *)

\* What was read is the whole tree of files: every tag of every file that includes lead
\* to is there exactly as often as in the files, however deep; a file that includes itself
\* over others is refused.
CfIncludes(disk) == [p \in CfFiles \X CfFiles |-> p[2] \in CfValuesIn(disk[p[1]], "include")]
CfTree(disk) ==
    {CfMain} \cup {f \in CfFiles : TransitiveClosure(CfIncludes(disk), CfFiles)[CfMain, f]}
CfWholeTree ==
    cf_data # <<>> =>
        LET tree == CfTree(cf_source)
            written(x) == {p \in tree \X (1 .. Len(cf_data)) :
                              p[2] \in DOMAIN cf_source[p[1]] /\ cf_source[p[1]][p[2]] = x}
        IN \A f \in tree : \A x \in ToSet(cf_source[f]) :
               x[1] # "include" =>
                   Cardinality({j \in DOMAIN cf_data : cf_data[j] = x}) = Cardinality(written(x))

\* A rehash that is carried out leaves the modules the configuration names loaded and no
\* other, whatever was loaded or unloaded by hand in between, but for those it reported.
CfModulesFollow ==
    [][\A user \in BOOLEAN :
          CfRehash(user) /\ cf_up' = "up" =>
              /\ CfValuesIn(cf_data', "module") \ cf_mods' \subseteq cf_failed'
              /\ cf_mods' \ CfValuesIn(cf_data', "module") \subseteq cf_failed'
              /\ cf_failed' \cap cf_mods \cap CfValuesIn(cf_data', "module") = {}]_cf_vars

\* The server listens on the ports of its configuration that could be opened, and a
\* rehash never closes one of those.
CfPortsFollow ==
    [][\A user \in BOOLEAN :
          CfRehash(user) =>
              /\ cf_ports' = CfValuesIn(cf_data', "bind") \ cf_portsFailed'
              /\ cf_ports \cap CfValuesIn(cf_data', "bind") \subseteq cf_ports']_cf_vars

\* The name other servers know this one by never changes but for its case.
CfNameKept == [][cf_name # CfNoName => CfSameName(cf_name, cf_name')]_cf_vars

\* A rehash ends with a server that is what the files say: all of them read, its modules and ports theirs but for
\* those it reported, its name kept.
CfFollows == []CfWholeTree /\ CfModulesFollow /\ CfPortsFollow /\ CfNameKept
=============================================================================
