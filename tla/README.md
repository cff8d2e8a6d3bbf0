# Formal models of the IRC server

TLA+ models of the daemon in `src/`, the TLC configurations that check them on
small instances, and theorems about them that TLAPS proves for all instances.
Every definition is a reading of the C++ source; `PROJECT.json` names, for each
one, the lines it stands for, and for every property a plausible bug (a mutant)
that breaks it.

    tlc -workers 2 -config MCPeople.cfg MCPeople        # one run
    tlapm ChannelSyncProofs.tla                         # one module of proofs

## 1. The system

One process, one thread. `InspIRCd::DoOneIteration` (inspircd.cpp:1057) ticks
timers, does background work for clients, lets the socket engine call the event
handlers of readable and writable sockets, and at the end empties two lists:
`GlobalCulls` (clients that quit) and `SocketCull` (sockets that failed). A
handler runs to its end, so a handler is a step of a model; what makes this code
hard is what happens *between* handlers: quits and closes that are only queued,
timers that delete timers, answers of name servers, databases and libraries that
come when the asker is gone, and, above all, several such processes linked into a
network by `m_spanningtree`, each acting at once on its own clients and telling
the others by lines that cross on the way. The one thread besides is the
dispatcher of `m_mysql`.

| Component | State it keeps | What makes it correct | Modules |
|---|---|---|---|
| Channels (channels.cpp, cmd_join/part/kick/invite) | user list, status lists, prefixes, modes, bans; per client channels, status bits, invitations | the copies agree; a record lives exactly while occupied; no pointer to a deleted client | `Channels`, `Membership` |
| Channel modes (mode.cpp, modes/, modestacker) | mode bits and parameters | an announced line does elsewhere what it did here | `ChannelModes`, `Texts` |
| User modes | modes, counts per mode, list of operators | counts are what they count, here and on the other server | `UserModes` |
| Clients (users.cpp, userprocess.cpp, cull_list.cpp, cmd_nick/user/kill) | nickname table, local users, clone counters, `GlobalCulls`, deadlines | a nickname names one record; each is freed once; nobody stays half registered | `Clients`, `Background` |
| Queues (users.cpp, inspsocket.cpp, engines) | RecvQ, SendQ, flood counters, write interest | limits hold; what is queued is sent; an error ends in a quit | `Queues`, `Pipes` |
| Timers (timer.cpp) | groups of timers by second | none missed, leaked, freed twice or ticked after deletion | `Timers` |
| Server links (treesocket1/2, utils, main) | TreeSockets, waiting handshakes, link blocks | both ends agree; one record per server; links come back | `LinkSetup`, `Connecting` |
| Network (ForceJoin, ForceMode, bursts, IntroduceClient, SERVER, SQUIT) | per server: channels, clients, tree of servers | servers agree once lines are read; no ghosts; each line arrives once | `ChannelSync`, `NickSync`, `ServerTree` |
| Sockets (inspsocket.cpp, socketengine*) | descriptor table, connection states | a descriptor refers to one live object | `Sockets` |
| DNS (dns.cpp) | requests, resolvers, cache | an answer reaches who asked, and only while he is there | `Resolver` |
| X-lines (xline.cpp), WHOWAS | ban lists; a map and a fifo | nobody stays under a matching line; two copies agree | `XLines`, `Whowas` |
| Module loader, configuration | parallel arrays of slots; tags, ports, modules | arrays stay aligned; what runs is what the files say | `Loader`, `Config`, `Texts` |
| Parser and helpers | — | texts are cut, packed and compared as defined | `Texts` |
| Feature modules | lists beside clients and channels | lists follow nickname changes, quits and other modules | `UserLists`, `Speech`, `Flood`, `Bans`, `Access`, `Gateway` |
| SSL, SQL, HTTP, JSON | sessions by descriptor; queries; requests; values | what belongs to one connection never reaches another | `TransportHooks`, `Database`, `Http`, `Json` |

How they interact: commands call into channels, modes and clients; every change
a local client makes calls the module hooks (`OnUserJoin`, `OnUserPart`,
`OnMode`, ...), which is how `m_spanningtree` relays it and how feature modules
keep their lists; lines from other servers call the same command handlers with a
remote client as the source, for which most checks are skipped. Quits of any
origin go through `GlobalCulls`; sockets of servers through `SocketCull`; both
lists are read by code that finds its objects again by name
(`clientlist->find(nick)`, `FindServer(name)`), which is where stale state bites.

The hazards this suggests, with their lines and the properties that would catch
them, are listed under `hazards` in `PROJECT.json`; a note says where a property
has to leave a case out because the code does go wrong there (section 5).

## 2. The modules

Every module declares its state, one action per handler and its own
specification (`<Module>Spec`). Names of a module begin with two letters of its
own (`cl_table`, `ClNick`), so that one run can hold several; the first four
modules and `Membership` came before that rule.

### Channels, Membership

The five copies of the membership are five sets of tuples: `userlist`
(`internal_userlist`), `chans` (keys of `userrec::chans`), `flags` (its
`UCMODE_*` bits), `statuslist` (the op, halfop and voice lists) and `prefixes`.
`ForceChan`, `DelUser`, `RemoveAllPrefixes` and `DropMembers` are the helpers of
the code, each touching the copies that function touches. `QuitUser` only puts a
client in `culls`; `Apply` is the cull at the end of the iteration, which purges
the channels only of clients that completed registration (cull_list.cpp:135).
`Speaks` says whose commands are heard: a registered client, and a dying one only
if it is remote (`ProcessUser` drops the lines of muted local clients). The checks
of `JoinUser` are separate operators, in the code's order, because an invitation
is spent after the second one. `Grant` and `Revoke` are one mode change for each
status; `ToggleMode` stands for +i, +k and +l, whose parameters matter here only
as "the key is right" and a constant limit.

`Membership` knows only who is online, on which channel, and operator where. The
refinement maps `online` to the registered clients, `on` to `chans`, and `ops` to
the +o bits: in particular a cull of several clients at once is one `Depart`, and
SAJOIN's and FJOIN's effects must be explained as entering.

### Clients, Background, Queues, Pipes

`Clients` has the nickname table and the counters, and the phases of an iteration
(`cl_phase`), because a quit is queued in one and applied, by nickname, in
another. `ClNick` and `ClOverrule` are cmd_nick; `ClIntroduce` and
`ClRemoteNick` are lines of another server. `Background` has the deadlines and
the computed `next_call` before which `DoBackgroundUserStuff` returns at once:
`BgCheck` is one run of its loop, `BgSleep` an iteration that returns.
`Queues` follows one client: `QuRead` is `ProcessUser`, `QuSecond` his part of
the background loop with a second gone by, `QuWrittenTo` somebody else's write,
which may only note an error. `Pipes` has sockets that take only a part, with the
one set of events of epoll and the two arrays of select.

### UserModes, ChannelModes

The parser reads a line of `<<sign, letter, parameter>>` changes with the limits,
handlers and side effects of mode.cpp, on the server of the client (`own`), and
announces what remains; the server `other` reads the announcement with the same
operators. +l is a number of `2 * MoHalf` values, stored as the code stores it.
`UserModes` adds the introduction of a client with his modes, OPERTYPE and
splits.

### Timers

Time is relative: `due[t]` is how many seconds away the key is that `t` is queued
under, `Past` is any key the clock has gone beyond. `TimePasses(k)` takes the
group of the current second as `TickTimers` does, `BeginTick` and `EndTick` are the
two halves of the call to `Tick`, and the calls a `Tick` may make happen between
them. `moved` remembers the timers that are queued under another key than
`GetTimer()`, which is what `DelTimer` looks under. A read of a freed timer or of an
invalidated iterator sets `corrupt`, and nothing happens after it.
`Steps` says by how many seconds an iteration can come after the last one,
`DelOutside` and `DelInTick` which timers are deleted by their owners and from
inside a `Tick`; `DelReached` which of the latter may be repeating timers the loop has
reached (`Reached`), the case in which the manager frees a timer it goes on to use.

### LinkSetup, Connecting

Each end of a TCP connection has a LinkState, "none" (no TreeSocket), "culled" (in
`SocketCull`) or "closed" (in it, already closed). `wire` carries the lines that
change something, in order, per end. `children` are the TreeServer records (one
per connection that made it that far), `serverlist` the one the name hash returns.
Credentials match and modules agree: those checks only end a handshake earlier.
Closing looks the peer up by name, in any state (`InspSocketCull`, `Collision`).
`"SELF"` is the SERVER line of a burst that introduces a server to itself, which
happens when a second record for it exists.

`Connecting` is the layer above, on one server: when it dials which link block
(`CoBackground`), what becomes of an attempt at each stage (`co_try`), the
failover, and the pings that end a silent link. Time passes in the 30 seconds of
the module's timer.

### ChannelSync, NickSync, ServerTree

`ChannelSync`: two servers, their clients, one channel. Every client command is
applied at home and sent; each line is handled as the receiving code does:
`ForceJoin`, `ForceMode` (split into `ForceStatus` and `ForceKey`), `ForceTopic`,
and the client-command handlers run for a remote source (`RemoteJoin`,
`RemoteLeave`, `RemoteTopic`). `LinkUp` starts with the dialler's burst, the peer
bursts when it reads BURST; `Break` cuts the connection and each side notices on
its own (`Netsplit`). `Linked` says which commands the clients of each server
give while the servers are linked, so that a run can ask about merges alone or
about crossing commands.

`NickSync`: the same two servers with their nicknames. A line names a nickname;
`NsSender` is the test that the client who has it now is behind the link the line
came from, without which a QUIT or NICK would hit a local client who has taken
the name meanwhile. `NsIntroduce` and `NsReadNick` are the two collisions,
`NsKill` and `NsForceNick` what operators and services do, `NsBreak` to
`NsBurst` a split and the relink.

`ServerTree`: on each server its tree as a set of paths and the name
hash; SERVER, SQUIT, bursts and one notice flood along it. `tr_plan` says which
links the configurations allow, as a tree or as a circle; `TrTreePlan` is that one
way at most leads from a server to another. In a circle of three TLC finds records no
name leads to and routes over closed sockets, though nobody hears a notice twice; in a
circle of four (a-b, b-c, c-d, d-a) it finds a notice heard twice as well. So
`TrOneTree` claims nothing of circles.

### Sockets, Resolver, TransportHooks, Database

In all four something refers to another thing by a number that is used again.
`Sockets`: `so_os` is whose descriptor a number really is, `so_ref` what the engine
believes, and `so_phase` the order of an iteration in which one is closed and
the other updated. `Resolver`: numbers of queries, `re_classes` the objects to
call; `ReAnswer` is the whole chain from a packet to a client's host name.
`TransportHooks`: one slot of `sessions[fd]` while one connection after another
has the descriptor; the library's result is any documented one. `Database`:
`db_pc` is where the dispatcher thread of m_mysql is, `DbDeliver` the answer that
reaches m_sqlauth by way of m_sqlutils. A client asks again with each NICK until he is
registered (`DbMayAsk`, `DbRegister`), so `db_mine` is a set of queries.

### XLines, Whowas, Loader, Config, Json

`XLines` has one kind of ban and the exceptions, the clients at each stage where
they are compared, and `xl_pending`, the lines of bursts that wait. `Loader` has
the parallel arrays as sequences, with the moves of priorities. `Config` reads
files that are sequences of tags (the reader of their characters is in `Texts`);
`Json` has values, their writer and their reader.

### Texts

A behaviour is one text, and the property compares the result with a reference
definition. The reader of configuration files; the helpers (lines and lists of tokens, `LoopCall`, the stacker of mode lines,
ports, durations; masks, addresses, names) as the loops they are, one turn or one call a step, over all texts
up to a length; references are the written parameters, the sets of ports, the
sum of the units, the recursive meaning of a glob, and equality of prefixes.

### UserLists, Speech, Flood, Bans, Access, Gateway, Http

Feature modules with state of their own. `UserLists` has the
lists of m_watch, m_dccallow and m_silence_ext with the indexes that must follow
nickname changes and quits. The order of silence entries, `Speech` and `Access`
are about order: of entries, of hooks, of the modules asked (`ac_order`,
`sp_order` are the orders of loading). `Flood` has three counters against the
clock; `Bans` the ban list with the redirects and expiry times that two modules
keep beside it. `Gateway` follows the address of a client who comes through a
CGI gateway, with the lookups about his earlier one in flight. `Http` has a
request in pieces, and the timer each answer replaces.

## 3. The runs

`channels` and the runs that show a violation each ask one question of one module.
`two_servers` asks three: it extends ChannelSync and has a second instance of it, and
one of LinkSetup, by `INSTANCE`, as the modules have names in common; a behaviour is
one of the three, and the invariants hold of all of them. The four large runs put
bounded instances of components that do not act on each other side by side, each
behaviour exercising one of them (`MCServer`, `MCPeople`, `MCNetwork`,
`MCProgress` extend the modules and say which). The properties of a component are
gathered in one formula per component, whose parts are defined, each with its
comment, above it in the module.

| Run | Instance | States | Properties |
|---|---|---|---|
| `channels` | 2 local clients, 1 remote, 1 channel, +o +h, +i +k +l | 171 000 | `MembersExact ImplementsMembership OplessStaysOpless` |
| `two_servers` | a link: one server dials twice, the other once, 1 failure; a merge: 3 clients on both sides, 1 key, 2 topics, no break after it; following: all clients and commands on one side, 2 links | 464 000 | `RecordsExact HalvesAgree FollowsExactly` |
| `server` | timers, module loader, x-lines, WHOWAS, configuration and its text, JSON, helpers | 163 000 | `TimersKept EveryTimerTicks LdSlotsSound XlSound WhRemembered CfFollows TextsRead` |
| `people` | clients and nicknames, user and channel modes, two channels with SAJOIN, lists, speech, floods, bans, ranks | 196 000 | `ClientsExact UmSound MoSound NoEmptyChannel ListsKept SpHeard FlCounted BnKeepsOut AcSafe` |
| `network` | a channel and nicknames over netsplits, descriptors, DNS, SSL and zip sessions, three servers, gateways, HTTP | 790 000 | `SplitsHeal NsAgree SoDescriptorsLive ReAnswered SlSessionsOwn TrOneTree GwRightAddress HtAnswered` |
| `progress` | one link with 3 failures, deadlines, write interest, queues, SQL, autoconnect | 51 000 | `LinkKept BgEnds PiWritten QuLimits DbAnswersArrive CoKeepsLinks` |

Each of the last four also checks the type invariants of its components together
(`ServerTypeOK` and so on). Six runs show the program doing otherwise than a
comment of its own says (`findings` quotes them): `channels_sajoin`, SAJOIN of an
unregistered client leaves a dangling pointer; `timers_skip`, timers of a skipped
second are lost; `timers_freed`, a Tick that deletes its own repeating timer frees it
under the loop; `timedbans_sweep`, an expired ban that cannot be removed is tried
for ever; `nokicks_override`, an oper's KICK override works in spite of +Q, also when
m_nokicks is loaded first; `links_cross`, two servers that dial each other at once get
two records. Where the run that checks the rest has to leave such behaviour out, a
constant or a named exception says so: `Steps` and `DelReached` of Timers (in
`server` {1} and {}: an iteration every second, no Tick that deletes a repeating
timer the loop has reached), and the opers named in `AcNoKicks`.

Bounds, and why they suffice. Two local clients and a remote one give every
relation the access checks distinguish (self, other, remote); membership is kept
per client and channel, so a second channel (`people`) matters only for the order
of deletions. Timers of one and two seconds let groups of one and of several meet
in a second. A negotiation collision needs two handshakes from one server, two
records need a dial from each: three connections give both. `MaxTime = 2` gives
older, equal and newer; two links give a merge after a merge; `MaxLines`, `NsWire`
and `UmWire` bound the lines on their way only by holding client commands back.
Descriptors and query numbers number fewer than their users, so that each is used
again; sessions (`SlConns = 2`) follow one another on one slot. Lists have room
for one or two entries and limits are as small, so that every limit is reached and
passed; two x-lines are a ban and an exception, or two bans in either order; the x-lines are not followed past a line
lost to a split, nor the bans when m_banredirect is unloaded after a channel went away with timed ones (the frames of
these parts say so: there the theorems speak). `CiWidth = 2` makes a byte of two bits, `JsBits = 5` a short integer,
`MoHalf = 8` a 16-bit limit; the code's arithmetic is the same at any width. Three
servers are the least with a route that is not a link. Words, ports, masks and
durations run over all texts up to the bound named in each module's CONSTANTS.
Counters such as `CfEdits`, `BnMost`, `GwMaxLookups`, `DbQueries` and `TrDials`
bound how often the outside world acts. `DbQueries = 2` is an earlier client's query and one's own, two
of one's own for two nicknames, or those of two clients at once. Every property has a mutant of the code
that breaks it (`mutants`).

Fairness, and why the code justifies it. The main loop iterates for ever and each
handler returns. So time passes and a `Tick` returns (`Timers`, in `server`); and
in `progress`: AutoConnect runs every five seconds, the listener accepts, readable
sockets are read (level-triggered engines report them until they are) and every
iteration ends with a cull (`LinkSetup`); the background loop is called each
second (`BgTick`, `QuSecond`); an event the kernel has reported is dispatched, and
clients that are not the peer of a blocked link read (`PiDispatch`,
`PiClientReads`); the thread of m_mysql is scheduled and a loopback byte is
delivered (`Db...`); the module's timer runs, and every lookup and connection
attempt ends one way or the other, by its timeout at the latest (`Co...`). Nothing
is assumed of clients, of other servers, or of failures but that they are bounded;
and each component's fairness holds only where that component is exercised.

## 4. What is proved

Seven modules of proofs, beside the components they are about, and one of lemmas about
data (`DataFacts`). A theorem holds
for every value of the constants that satisfies the component's assumption (any
clients, names, channels and limits; finite sets where something counts them),
where TLC has one small instance.

`PeopleProofs` begins with the channels. `TypeCorrect`; and, assuming `~SaJoinEarly` (no
operator gives SAJOIN for a client who has not completed registration),
`MembersAlwaysExact`, from `ViewsAlwaysAgree`, `NeverEmptyChannel` and
`NeverDangling`. None of these is inductive alone: the invariant `Consistent` adds
`MembersRegistered`, that only clients who completed registration are on
channels. `Apply` relies on that silently (it purges channels only for them), and
SAJOIN breaks it, which is the run `channels_sajoin`. `Implements`: under the same
assumption every step is a step of `Membership` or a stutter. `OplessForever`
needs no assumption: it follows from where each action adds operators
(`NoUsurper`).

`DataFacts`. The prover has no induction over an operator's argument, but induction over
a set is first-order: `Induct` says that a set with 0, and with k + 1 for each k of its
own, has every natural number (its proof is a least counterexample, `Least`). From it:
finite sets of numbers have their `Max`, and the function that `FoldLeft` of the library
chooses exists (`FoldExists`) and is taken turn by turn (`FoldStays`, `MaxOfRange`). So a
fold over a list is proved about for lists of any length, where the model has one. The
step lemmas are about a set of values and a function of turns, as lemmas with an operator
for parameter cannot be used. `SetInduct` is the same over the subsets of a finite set; with
it a fold over a set, whose turns come in an order nobody knows, is walked in one that exists
(`WalkExists`, `FoldTurns`, `TurnsKeep`), and `SetToSeq` lists each member once (`SetListed`).

`LinkSetupProofs`. `LinkTypeCorrect`, `NegotiationAlwaysListed`,
`HashAlwaysFollowsTree` and, from them, `RecordsAlwaysExact`, over any number of
connections. `Listed` is their conjunction: the type of a
handshake depends on the list being right, so none of the three is inductive alone.

The same module has `NicknamesAlwaysAgree`, for any clients and nicknames. `NsBase`
is what the tables and wires hold by themselves: who is registered has a nickname,
a server introduces its own clients only, BURST is the first line of a wire whose
reader waits for it and has said nothing. `NsFollows` relates the two servers. A NICK
or QUIT only makes sense to a reader who knows which client had that nickname when the
line was sent, so the invariant keeps the sender's views: `NsFits(P, w, now)` has one
for each line of the wire, the first what the reader should know by now, the last what
the sender has, each explained from the one before by the line between (`NsExplains`).
`NsTale` is a client of the sender along the views: the other server's record of him is
the first view's unless he is being removed there; his INTRO is on the wire only while
he has no record; he is not introduced twice; and if his own server has sent a KILL
of the nickname he has, it stands before his INTRO, meant for whoever had it then. `NsReached` is why nobody is lost: a
client who kept his nickname is known, on the way, about to be removed, or named by
a KILL that will be read. Lemmas say what a line said (`NsHearsSaid`), a line read
(`NsHearsRead`) and anything else (`NsHearsStill`) make of the views, and each action
combines two of them, one for each direction. The exception in `NsAgree` is
real: a client who changed his nickname can survive the KILL that names the old one,
as the proof's case of `NsTaleHasty` shows by promising nothing of him but his views.

`ChannelSyncProofs`. `SyncTypeCorrect`; `NeverGhosts`: after any number of netsplits
nobody's membership, status or channel outlives him. `Tidy` adds `Stamped`, that a
topic always has the time it was set.

That the two servers agree is not inductive: they agree only when every line has
been read. The invariant says what the lines on their way do. `Leads(step, S, x,
lines, y)` holds when the reader of `lines`, one after the other, gets from `x` to
`y` through states in `S`; lemmas say what an empty wire, a line read and a line
appended make of it. With this:
- `SplitsAlwaysHeal`, if no KICK is sent over the link (`NoKicks`): the lines on
  their way to a server lead from whom it thinks to be on the channel, of the
  other's clients, to who is (`Mending`). With KICK it is not so: who is kicked by
  the other server while he parts and joins again ends up on one server only.
- `AlwaysFollows`, if all clients are on one server (`OneHome`): the lines lead the
  other server's whole channel, age, members, operators and key, to the first one's,
  through sound channels only (`Following`), so that a relayed JOIN always finds one.
  Whatever commands the clients give, whenever the link breaks.
- `HalvesAlwaysMerge` and `HalvesAlwaysAgree`, if clients keep still while
  their server is linked (`Unlinked`): the two bursts lead the two channels to the same
  age, operators and topic (`Halves`; `JointSame` says what of, `MeetCopies` and
  `MeetTops` that each burst gets there), and to the same key where there is one key
  to set (`OneKey`). With two keys of one age the servers exchange them: TLC gives
  the trace when `Keys` of MCTwoServers.cfg has two values and `KeysAgree` is checked.
The hypotheses are those of `network` and of the two settings in `two_servers`, without their bounds. Where clients of
both servers act at once, statuses and keys that cross do diverge in this code, as
the lines carry no more than the channel's age.

`ClientsProofs`. `ClientsAlwaysExact`: the nickname table names each client under
the nickname he has, the counters are what they count, and no client is freed
except by `Apply`, once. `ClKept` and `ClCounted` are the invariant: while a
client is in `GlobalCulls` his entry is still there to be found by nickname, and
the two clone counters are cardinalities of finite sets, the local one an upper
bound only, as it is lowered for remote clients too.

The same module has the two MODE handlers. What the other server has is right only when it
has read every line, so both invariants say, as for the channels, what the lines on their way
will do. `ModesSound` (`MoKeepsUp`): there is a trail of channels (`MoTrail`), from the other
server's to the first one's, and each line takes one to the next. A line is processed letter
by letter and may be cut, refused or completed; `MoAnyEchoes` is the heart of it: whatever a
handler made of a letter, what is announced of it does on any channel of the same modes what
the letter did here, a limit that wrapped to 0 included; so the whole announcement does
(`MoReplays`), though it may be cut where the line was not. `UserModesSound` (`UmKeepsUp`):
each server is right by itself (`UmSane`: who is in the list of operators, what the counter
of +i counts, that nobody who left has modes), and the lines lead (`UmLeads`) what the other
knows to what the user's server knows. What it knows are users, operators and the letters i
and o only (`UmView`): of +s and +n the other server is told less than happened, since +n
sets +s by a change that is not announced. A split undoes every introduction (`UmAllGone`,
over the list of the users in any order), a burst makes them all again (`UmBurstLeads`), and an
introduction counts each mode once though the handlers are called first (`UmIntroIs`).

`PeopleProofs`. `AccessAlwaysSafe`: who may kick or demote whom, for each order in
which m_chanprotect, m_nokicks and m_override are loaded. `AcKept`
adds the types, in particular that an order lists each of them once, and that only
who is on the channel has a status. `AlwaysCounted`: nobody is stopped for a flood
he did not make. `FlBacked` is the invariant of each counter: while its clock runs,
every event it has counted is remembered and no older than the clock. `ListsAlwaysKept`:
m_watch's index and lists name each other (`WtKept`), a DCCALLOW entry is of
the client it was made for and not run out (`DaKept`), and the exceptions of a SILENCE
list stand before the rest of it (`SiKept`), which is why they speak first.
`HeardAsModesSay`: `SpPassed` is what holds of a text after the first k hooks were asked,
each of them having refused it, changed it or let it pass: after m_stripcolor no colour is
left, after a filter no word unless colours are stripped later on. The lemmas below it say
what stripping and censoring make of any text. `KeptOutAsSet`: the invariant is `BnKept`.
Each ban with a target is among the redirects of its channel (`BnSent`), which two handlers
change one after the other and either may refuse; each entry of `TimedBanList`, off channels that
went away, waits for a ban that is set and is the only one of it (`BnTidy`), without which an
expired entry would lift a ban somebody set later. The sweep of expired bans, `OnCleanup` and
the unloading of m_banredirect are folds that give MODE lines of their own; each turn keeps
the lists near to one another (`BnNear`), and the last brings them together.

`NetworkProofs`. `EveryLookupAnswered`: an object waits exactly under a number
whose request is of its kind (`ReFits`), none of a module that is gone does, and
the host of a client leads back to his address. `ReKept` adds that the cache says
the truth, which is how an answer from it is as good as one from a server.
`SessionsAlwaysOwn`, assuming `~SlDropsBusy`: what goes through the session of a
connection is its own text, once and in order. `SlSound` holds of the record a
call works on, before and after each of its parts (handshake, encoder, decoder),
so a call that does several of them is covered by one lemma for each; `SlKept`
adds that a closed descriptor has no live session, which a REHASH that drops a
port in use would break.
`RefsAlwaysLive` and `DescriptorsAlwaysLive`: `SoEngineKept` says that a descriptor
the engine watches leads to a handler that is alive and has it, `SoIdentsKept` that a
client knows the lookup about him unless it has ended. The second theorem assumes
`~SoOverlap`, that no client repeats NICK or USER while a lookup runs: then m_ident
starts a second one and forgets the first, which the proof attempt brought to light
and the model has since. `RequestsAlwaysAnswered` and `TimersAlwaysOwned`: `HtSound`
says how far the request of each connection has come, whether it is answered, and
which timers there are; the first assumes `HtGetsBare` (no GET announces a length),
as m_httpd answers such a GET twice. Names of timers are finite, so there is always
a fresh one (`HtRoom`). `AddressesAlwaysRight`: `GwKept` has the clone counts equal
to the number of clients with each address (cardinalities of finite sets), a gateway
that vouches for whoever has another address than he came with or waits for one, and
which lines a client cannot be under: not a Z-line against who was moved away and
back, which the first attempt at the proof had wrong, and the property with it.

`ServerTreeProofs`. `OneTreeAlways`, for any number of servers, connections and losses,
where no circle of link blocks is configured (`TrTreePlan`, the hypothesis of each part of
`TrOneTree`). Then one way leads from a server to another (`TrOneWay`), so a tree
can differ from its neighbours' only in what it has not heard yet. The invariant
`TrKept` has for each server that its tree consists of ways, prefixes included, and the
list of names is that of the tree (`TrBook`), that its sockets are the first steps into the
tree (`TrPlugged`), and for each two servers what is on its way between them (`TrPairOK`):
read one after the other, the lines lead the reader from what he has of the side of the
sender to what the sender would have him have now, or to the end of the stream
(`TrTrail`; `TrSays` is one line). Every handler takes a server from one sound state to
another (`TrBook`, `TrPlugged`) and writes to each neighbour just what makes up the
difference (`TrMoves`): SERVER and SQUIT to the others, the burst to the new one, nothing to
where the news came from. `TrCommitKeeps` lifts that to the network, for the reader, the
writer and the pairs that are neither. The proof of `TrBurstLines` uses only that each
server comes after the one it is linked to. `TrOneTree` follows: names and
sockets from `TrBook` and `TrPlugged`; `TrTreesAgree` because with empty wires what a server
has of each neighbour's side is what that one has, one step along the way after the other
(`TrQuietOn`, `TrQuietBoth`); and `TrHeardOnce` from `TrTold`, that the notice only moves
away from who sent it: where it is on a wire the writer has heard it and the reader has not.

`ServerProofs`. `LinesAlwaysSound`: `XlKept` says which clients the lines have been
held against, those that are registered and, under Z- and Q-lines, those that wait
for registration; that each of them is free of matching lines or excused, and that
who counts as exempt is excused. An expiry takes entries out by sorting and popping;
the proof needs only that the sorted list has each entry once (`XlFrom`). `AlwaysRemembered`: the
map and the fifo of WHOWAS name the same nicknames, each once (`WhTables`), a pruning
removes the longest stale prefix, and a full group never grows (`WhGrown`, an action
property). The run that checks them has one link, the theorem any number.
`SlotsAlwaysSound`: `LdKept` has the list of names, the objects and the hooks
aligned and the counts right. A module's SetPriority may move every slot several times,
in the order the hooks are gone through; each move is two slots swapped, so what is left
is some order of the slots there were (`LdMixes`), and counts do not see orders.

Of the timers, `TypeCorrect`; `NeverFreed` and `NeverLost`, if no `Tick` deletes a
repeating timer the loop has reached (`DelReached = {}`, and the run `timers_freed`
shows that this is needed), whatever else owners and Ticks create, cancel and delete;
`NeverMissed`, if an iteration comes every second (`Steps = {1}`, and the run
`timers_skip` shows that this is needed); `DeletedNeverTicks`, if owners delete
one-shot timers only. The invariants are `Placed` (where a timer in each state is
queued) and `Custody` (a timer queued under a key that is not its own repeats, and no
deleted timer lives). `TimersAlwaysKept` combines them under all three assumptions.
The program does call `DelTimer` on repeating timers outside a `Tick`, when
cmd_whowas, the resolver or m_spanningtree are unloaded: there only the first three
speak.

Only model-checked, and why:
- every liveness property: fairness and ENABLED are beyond the prover;
- what recursive operators compute (`Json`), and the calculations on texts and numbers
  (`TextsRead`), which TLC evaluates on tables of inputs;
- `QuLimits`, a temporal property of rates over several iterations.

## 5. What the models show besides

Behaviours the code really has, which a property therefore has to leave out; the
definition named says how.

*Channels and modes.* An invitation is spent by a join that +l or a ban then
refuses, against users.h:651 (`Join`). An invitation names a channel, so it
outlives it (users.cpp:519). A ban list longer than its maximum refuses even -b
(`BnRefused`). +l 65536 stores 0 (`MoShort`). A parameter too long for a line stops every
change after it (`MkTooLong`). A -b that m_banredirect refuses leaves an expired
ban for ever (`timedbans_sweep`). m_nokicks, m_override and m_chanprotect answer
in the order of loading (`AcOverrides`). An oper whose override privileges include KICK
kicks on a +Q channel in every order of loading: m_override answers OnUserPreKick and
`chanrec::KickUser` then asks no OnAccessCheck, against m_nokicks.cpp:83
(`nokicks_override`, `AcNobodyKicks`); one with OTHERMODE does so when m_override is
asked before m_nokicks (`AcNoKicks`). Also a KICK by a server leaves +q and +a
behind (`ac_stale`).

*Links.* A socket that fails squits whatever server has its name, also when
another link carries it (`InspSocketCull`). Channels of equal age swap their keys,
topics of one second are swapped (`ForceKey`, `ForceTopic`). When clients of both
servers change statuses, keys or topics, or kick, while lines cross, the servers
may end up differing; the protocol has no remedy and no comment claims one, and
`Linked` keeps the runs to the commands that are claimed to converge. A JOIN that
crosses the last PART makes the channel anew with another timestamp. Links that
cross close a circle (`TrTreePlan`). A client who changes nickname before his
introduction was answered may stay unknown elsewhere (`ns_hasty`).

*Clients and queues.* The local clone counter is lowered for remote clients too
(`ClRemoveCloneCounts`). The lines of a burst that wait for its end are forgotten
when another link adds one (`xl_lost`). The select engine drops write interest
(`PiWritten` is for epoll). Two servers that block each other on full buffers wait
for ever (`PiBothBlocked`). m_watch erases, on a quit, the entry of the one who
quits for all watchers of another name (`wt_dropped`). Senders of another server
are not asked about by m_deaf (`sp_heard.from`).

*Transport.* A rehash that drops an SSL port in use leaves the session open
(`SlDropsBusy`). An HTTP answer 400 leaves its timer behind (`ht_left`). The
answer of a blacklist acts on the address the client has now (`GwListedOnly`);
K-lines of m_dnsbl are never applied to the client at hand (`GwActions`).
A client who repeats NICK or USER while m_ident looks him up is looked up again,
and only the first lookup is tied to him: when he quits, the second one goes on
with his address, and its check in m_ident.cpp:103 holds again for a new client
who gets the same memory and the same descriptor (`SoOverlap`; with TRUE and two
lookups, TLC shows the eleven steps).

m_sqlauth asks again at each NICK until the client is registered and judges every
answer by the client alone (m_sqlauth.cpp:143-169): a row about a nickname he no
longer has authenticates him under the present one, and an empty answer after it
does not make him quit (`DbReply`, `DbOwnAnswer`: some query of his own found a row).
When an HTTP connection is closed by its own timer, `~HttpServerSocket`
(m_httpd.cpp:94-98) reads `Timeout->GetTimer()` after the manager has freed the timer;
the models leave this read out (`HtDelete`).

*Timers.* A Tick that calls DelTimer on a repeating timer the loop has reached - its
own, as a rule - has it freed at once, with the group's iterators, and the loop goes
on with both; the comment in DelTimer (timer.cpp:63-67) takes the loop for safe, the
one on CancelRepeat (timer.h:87-93) warns of it (`timers_freed`, `Reached`). No Tick
in this repository does so; a module's may. A repeating timer that was queued again
is not found by DelTimer (`Found`).

*Texts.* A last parameter that ends in a colon is read with one more, empty,
parameter (`TkColonTail`). `LoopCall` skips a duplicate channel without its key
(`LcDistinct`). "/" without a number means every address.

## 6. Not modelled

Text formatting and replies; start-up, signals and daemonising; the insides of the
TLS, SQL and zip libraries (any documented result may happen); dlopen; packets of
DNS; the Windows port; about ninety modules of one mode letter, one report or one
rewriting each; m_http_client, which cannot work as written. In parts that are
modelled: the `allowpattern` of m_sqlauth (left empty), the read of a freed timer by
`~HttpServerSocket`, SVSJOIN, SVSPART and SAPART (the calls of JOIN and PART), RCONNECT and
RSQUIT (CONNECT and SQUIT given elsewhere), TIMESET, OPERQUIT, metadata, bans in
FJOIN bursts, overflow of durations, the overlapping mode of the port parser,
kqueue, event ports and IOCP. `components` in `PROJECT.json` has the list.
