------------------------------- MODULE Loader -------------------------------
(***************************************************************************)
(* Loading and unloading modules and core commands (InspIRCd::LoadModule,  *)
(* UnloadModule, CommandParser).  What is known of the module in slot j is *)
(* in parallel arrays: its name, its object, the hooks it implements.      *)
(* Slots are swapped by the priorities modules ask for and shifted by an   *)
(* unload; every hook of the server is called through these arrays.  The   *)
(* commands of all modules are in one hash table, and interfaces count     *)
(* their users, to keep a provider from being unloaded under them.         *)
(***************************************************************************)
EXTENDS Naturals, Integers, Sequences, FiniteSets, SequencesExt

CONSTANTS
    LdModules,      \* module files
    LdAlphabet,     \* the modules as a sequence, in the order of their names
    LdPriority,     \* Module::Prioritize: [at : {"first", "last", "before", "after", "any"}, of : module]
    LdHooks,        \* the hooks each module implements
    LdCommands,     \* command names, in the order of the hash table
    LdWants,        \* the commands each module creates, a sequence
    LdCoreOwned,    \* commands of cmd_*.so files
    LdOffers,       \* interfaces each module publishes
    LdNeeds,        \* interfaces each module uses
    LdCore          \* the owner "<core>"

LdInterfaces == UNION {LdOffers[m] \cup LdNeeds[m] : m \in LdModules}
LdAllHooks == UNION {LdHooks[m] : m \in LdModules}

ASSUME LoaderOK ==
    /\ LdCore \notin LdModules
    /\ LdAlphabet \in Seq(LdModules)
    /\ LdCommands \in Seq(STRING)
    /\ \A m \in LdModules : LdWants[m] \in Seq(STRING)

VARIABLES
    ld_names,       \* Config->module_names
    ld_objects,     \* InspIRCd::modules, with the factories
    ld_impl,        \* Config->implement_lists
    ld_global,      \* Config->global_implementation
    ld_commands,    \* CommandParser::cmdlist: [name, source], in the order of the table
    ld_counts,      \* Interfaces: the count of each one
    ld_offered      \* Interfaces: its providers

ld_slots == <<ld_names, ld_objects, ld_impl>>
ld_vars == <<ld_slots, ld_global, ld_commands, ld_counts, ld_offered>>

LdCommand == [name : {LdCommands[i] : i \in DOMAIN LdCommands}, source : LdModules \cup {LdCore}]

LoaderTypeOK ==
    /\ ld_names \in Seq(LdModules) /\ ld_objects \in Seq(LdModules)
    /\ ld_impl \in Seq(SUBSET LdAllHooks)
    /\ ld_global \in [LdAllHooks -> Int]
    /\ ld_commands \in Seq(LdCommand)
    /\ ld_counts \in [LdInterfaces -> Int]
    /\ ld_offered \in [LdInterfaces -> SUBSET LdModules]

\* The commands with these names that "has" knows, in the order of the table.
LdTable(has) ==
    LET present == SelectSeq(LdCommands, LAMBDA n : n \in DOMAIN has) IN
    [i \in DOMAIN present |-> [name |-> present[i], source |-> has[present[i]]]]
LdSource == [n \in {ld_commands[i].name : i \in DOMAIN ld_commands} |->
                (CHOOSE e \in {ld_commands[i] : i \in DOMAIN ld_commands} : e.name = n).source]

LoaderInit ==
    /\ ld_names = <<>> /\ ld_objects = <<>> /\ ld_impl = <<>>
    /\ ld_global = [h \in LdAllHooks |-> 0]
    /\ ld_commands = LdTable([n \in LdCoreOwned |-> LdCore])
    /\ ld_counts = [i \in LdInterfaces |-> 0]
    /\ ld_offered = [i \in LdInterfaces |-> {}]

-----------------------------------------------------------------------------
(* Slots and priorities *)

LdSwap(s, i, j) == [s EXCEPT ![i] = s[j], ![j] = s[i]]

\* InspIRCd::MoveTo: the module changes places with the one in the slot.
LdMoveTo_forgets(s, m, slot) ==  \* mutant: the implement lists stay
    LET at == CHOOSE i \in DOMAIN s.names : s.names[i] = m IN
    [s EXCEPT !.names = LdSwap(@, at, slot), !.objects = LdSwap(@, at, slot)]
LdMoveTo(s, m, slot) ==
    LET at == CHOOSE i \in DOMAIN s.names : s.names[i] = m IN
    [names |-> LdSwap(s.names, at, slot), objects |-> LdSwap(s.objects, at, slot),
     impl |-> LdSwap(s.impl, at, slot)]

LdSlotOf(s, m) == CHOOSE i \in DOMAIN s.names : s.names[i] = m
LdLoaded(s, m) == \E i \in DOMAIN s.names : s.names[i] = m

\* MoveBefore: to the slot in front of the other one.
LdMoveBefore(s, m, of) ==
    LET at == LdSlotOf(s, of) IN LdMoveTo(s, m, IF at > 1 THEN at - 1 ELSE at)
\* MoveAfter: the two change places.
LdMoveAfter(s, m, of) == LdMoveTo(s, m, LdSlotOf(s, of))

\* PriorityBefore and PriorityAfter ask for nothing while the other module is not loaded.
LdWish(s, m) ==
    LET p == LdPriority[m] IN
    IF p.at \in {"before", "after"} /\ ~LdLoaded(s, p.of) THEN "any" ELSE p.at

LdMove(s, m, at) ==
    CASE at = "last" -> LdMoveTo(s, m, Len(s.names))
      [] at = "first" -> LdMoveTo(s, m, 1)
      [] at = "before" -> LdMoveBefore(s, m, LdPriority[m].of)
      [] at = "after" -> LdMoveAfter(s, m, LdPriority[m].of)

\* The modules in this order that wished, in slots s, for a place are moved there one by one.
LdMoveAll(s, at, t, order) ==
    FoldLeft(LAMBDA moved, m : IF LdLoaded(s, m) /\ LdWish(s, m) = at THEN LdMove(moved, m, at) ELSE moved,
             t, order)

\* What LoadModule does to the slots last: every module's wish again, first those
\* that want to be last, then first, before and after another one.
LdPrioritise(s) ==
    LET last   == LdMoveAll(s, "last", s, s.names)
        first  == LdMoveAll(s, "first", last, s.names)
        before == LdMoveAll(s, "before", first, LdAlphabet) IN
    LdMoveAll(s, "after", before, LdAlphabet)

-----------------------------------------------------------------------------
(* Interfaces *)

\* UseInterface and DoneWithInterface count only an interface that exists.
LdCount(counts, is, by) ==
    [i \in LdInterfaces |-> IF i \in is /\ ld_offered[i] # {} THEN counts[i] + by ELSE counts[i]]

\* GetInterfaceInstanceCount: of the first interface the module provides.
LdInUse(m) ==
    \E i \in LdInterfaces : m \in ld_offered[i] /\ ld_counts[i] > 0

\* PublishInterface; a new interface starts with nobody using it.
LdPublished(m) == [i \in LdInterfaces |-> IF i \in LdOffers[m] THEN ld_offered[i] \cup {m}
                                         ELSE ld_offered[i]]
\* UnpublishInterface.
LdUnpublished(m) == [i \in LdInterfaces |-> ld_offered[i] \ {m}]

\* EraseModule and EraseFactory.
LdErase(slots, j) == RemoveAt(slots, j)

-----------------------------------------------------------------------------
(* Operations *)

\* The constructor creates the commands one by one until one exists already.
LdCreated(m) ==
    LET free == {k \in DOMAIN LdWants[m] : \A j \in 1 .. k : LdWants[m][j] \notin DOMAIN LdSource} IN
    {LdWants[m][k] : k \in free}
LdConstructed(m) == Cardinality(LdCreated(m)) = Len(LdWants[m])

LdNewCommands(m) ==
    LdTable([n \in DOMAIN LdSource \cup LdCreated(m) |->
                IF n \in LdCreated(m) THEN m ELSE LdSource[n]])

\* LoadModule of a module whose constructor returns ...
LdLoad(m) ==
    /\ ~LdLoaded([names |-> ld_names], m)
    /\ LdConstructed(m)
    /\ ld_commands' = LdNewCommands(m)
    /\ ld_counts' = [i \in LdInterfaces |->
            IF i \in LdOffers[m] /\ ld_offered[i] = {} THEN 0 ELSE LdCount(ld_counts, LdNeeds[m], 1)[i]]
    /\ ld_offered' = LdPublished(m)
    /\ ld_global' = [h \in LdAllHooks |-> ld_global[h] + (IF h \in LdHooks[m] THEN 1 ELSE 0)]
    /\ LET s == LdPrioritise([names |-> Append(ld_names, m), objects |-> Append(ld_objects, m),
                              impl |-> Append(ld_impl, LdHooks[m])]) IN
       ld_names' = s.names /\ ld_objects' = s.objects /\ ld_impl' = s.impl

\* ... and of one whose constructor throws: what it has created stays.
LdLoadThrows(m) ==
    /\ ~LdLoaded([names |-> ld_names], m)
    /\ ~LdConstructed(m)
    /\ ld_commands' = LdNewCommands(m)
    /\ ld_counts' = LdCount(ld_counts, LdNeeds[m], 1)
    /\ UNCHANGED <<ld_slots, ld_global, ld_offered>>

\* RemoveCommands: the entry after each one is looked at, and the first one last;
\* after an erasure the iterator moves on.
LdRemoveCommands(m) ==
    LET visit(cmds, i) ==
            IF i < Len(cmds) /\ cmds[i + 1].source = m THEN RemoveAt(cmds, i + 1) ELSE cmds
        rest == FoldLeft(visit, ld_commands, [i \in DOMAIN ld_commands |-> i]) IN
    IF rest # <<>> /\ rest[1].source = m THEN Tail(rest) ELSE rest

LdUnload(m) ==
    LET j == LdSlotOf([names |-> ld_names], m) IN
    /\ LdLoaded([names |-> ld_names], m)
    /\ ~LdInUse(m)
    /\ ld_global' = [h \in LdAllHooks |-> ld_global[h] - (IF h \in ld_impl[j] THEN 1 ELSE 0)]
    /\ ld_names' = LdErase(ld_names, j) /\ ld_objects' = LdErase(ld_objects, j)
    /\ ld_impl' = LdErase(ld_impl, j)
    /\ ld_commands' = LdRemoveCommands(m)
    /\ ld_offered' = LdUnpublished(m)
    /\ ld_counts' = LdCount(ld_counts, LdNeeds[m], -1)

\* ReloadCommand: the command is gone when its file cannot be opened again.
LdReload(n) ==
    /\ n \in DOMAIN LdSource /\ LdSource[n] = LdCore
    /\ \E opens \in BOOLEAN :
         ld_commands' = IF opens THEN ld_commands
                        ELSE SelectSeq(ld_commands, LAMBDA e : e.name # n)
    /\ UNCHANGED <<ld_slots, ld_global, ld_counts, ld_offered>>

LdBound == \A i \in LdInterfaces : ld_counts[i] \in -1 .. 2

LoaderNext ==
    \/ \E m \in LdModules : LdBound /\ (LdLoad(m) \/ LdLoadThrows(m) \/ LdUnload(m))
    \/ \E n \in LdCoreOwned : LdReload(n)

LoaderSpec == LoaderInit /\ [][LoaderNext]_ld_vars

-----------------------------------------------------------------------------
(* Properties *)

\* After any loads, unloads and moves, the name, the object and the implement list
\* of a slot belong to the same module: no hook is called on one that lacks it.
SlotsAligned ==
    /\ ld_objects = ld_names
    /\ Len(ld_impl) = Len(ld_names)
    /\ \A j \in DOMAIN ld_names : ld_impl[j] = LdHooks[ld_names[j]]

\* global_implementation, which decides whether a hook is called at all, is the
\* number of loaded modules that implement it.
HooksCounted ==
    \A h \in LdAllHooks :
        ld_global[h] = Cardinality({j \in DOMAIN ld_names : h \in LdHooks[ld_names[j]]})

\* All that is kept of a module by its slot is about that module, and all that is counted is there.
LdSlotsSound == SlotsAligned /\ HooksCounted
=============================================================================
