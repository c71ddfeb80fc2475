--------------------------- MODULE CommandRegistry ---------------------------
(***************************************************************************)
(* CommandRegistry of wazeko/src/plugins/command-loader.ts: the commands a *)
(* client knows, their aliases, and the reload of a file of commands while *)
(* the client runs.                                                        *)
(*                                                                         *)
(* loadModule awaits one import.  Before it the file's commands are         *)
(* unregistered and after it those the module exports are registered, each  *)
(* part in one turn; other loads, of the same file too, and calls of        *)
(* register and unregister come in between.                                 *)
(*                                                                         *)
(* Words are in lower case.  A command is what the maps tell apart: its     *)
(* name, its aliases and its file.  fileMap keeps the set of the names a    *)
(* file has listed: the array may hold a name several times, but removes    *)
(* all of them at once.  Each import makes objects of its own.              *)
(*                                                                         *)
(* A definition marked "slip" is a mistake that no specification uses: see  *)
(* MessageQueue.                                                            *)
(***************************************************************************)

CONSTANTS
  Words,  \* what a user can type after the prefix
  Names,  \* the words that are names of commands
  Files,  \* files of commands
  Loads,  \* calls of loadModule that may be in progress at a time
  None    \* no command, no file, no load

ASSUME WordsAssumption == Names \subseteq Words
ASSUME NoneAssumption ==
  /\ None \notin Names /\ None \notin Files /\ None \notin Loads
  /\ \A n \in Names, a \in SUBSET Words, f \in Files \cup {None} :
       None # [name |-> n, aliases |-> a, file |-> f]

VARIABLES
  commands,     \* by name
  aliases,      \* from an alias to a name
  fileMap,      \* the names each file has registered
  loading,      \* the file that a call of loadModule imports
  newest,       \* history: the load of each file that began last
  overlapped,   \* history: files whose newest load began during another load of them
  stale,        \* history: commands whose file began to be loaded again after them
  overwritten   \* history: some name was registered while it was registered

registry == <<commands, aliases, fileMap>>
loadHistory == <<newest, overlapped, stale, overwritten>>
registryVars == <<registry, loading, loadHistory>>

\* bound: a command has at most one alias
Definitions ==
  {d \in [name : Names, aliases : SUBSET Words] : \A a, b \in d.aliases : a = b}

Commands == [name : Names, aliases : SUBSET Words, file : Files \cup {None}]
Command(d, f) == [name |-> d.name, aliases |-> d.aliases, file |-> f]

RegistryTypeOK ==
  /\ commands \in [Names -> Commands \cup {None}]
  /\ \A n \in Names : commands[n] # None => commands[n].name = n
  /\ aliases \in [Words -> Names \cup {None}]
  /\ fileMap \in [Files -> SUBSET Names]
  /\ loading \in [Loads -> Files \cup {None}]
  /\ newest \in [Files -> Loads \cup {None}]
  /\ overlapped \subseteq Files
  /\ stale \subseteq Names
  /\ overwritten \in BOOLEAN

RegistryInit ==
  /\ commands = [n \in Names |-> None]
  /\ aliases = [w \in Words |-> None]
  /\ fileMap = [f \in Files |-> {}]
  /\ loading = [l \in Loads |-> None]
  /\ newest = [f \in Files |-> None]
  /\ overlapped = {} /\ stale = {} /\ overwritten = FALSE

----------------------------------------------------------------------------
\* register and unregister, as functions of a registry r.

Registry == [commands |-> commands, aliases |-> aliases, fileMap |-> fileMap]

Become(r) == commands' = r.commands /\ aliases' = r.aliases /\ fileMap' = r.fileMap

Has(r, n) == r.commands[n] # None
OfFile(r, f) == {n \in DOMAIN r.commands : Has(r, n) /\ r.commands[n].file = f}

\* slip: only the first command of a file is listed.
RegisteredFirstListed(r, c) ==
  [ commands |-> [r.commands EXCEPT ![c.name] = c],
    aliases |-> [w \in Words |-> IF w \in c.aliases THEN c.name ELSE r.aliases[w]],
    fileMap |-> [f \in Files |-> IF c.file = f /\ r.fileMap[f] = {} THEN {c.name}
                                 ELSE r.fileMap[f]] ]

Registered(r, c) ==
  [ commands |-> [r.commands EXCEPT ![c.name] = c],
    aliases |-> [w \in Words |-> IF w \in c.aliases THEN c.name ELSE r.aliases[w]],
    fileMap |-> [f \in Files |-> r.fileMap[f] \cup (IF c.file = f THEN {c.name} ELSE {})] ]

\* slips: the aliases stay, and the file goes on listing the name.
UnregisteredNameOnly(r, ns) ==
  LET gone == {n \in ns : Has(r, n)} IN
  [ commands |-> [n \in Names |-> IF n \in gone THEN None ELSE r.commands[n]],
    aliases |-> r.aliases,
    fileMap |-> [f \in Files |-> r.fileMap[f] \ {n \in gone : r.commands[n].file = f}] ]
UnregisteredStillListed(r, ns) ==
  LET gone == {n \in ns : Has(r, n)}
      freed == UNION {r.commands[n].aliases : n \in gone}
  IN
  [ commands |-> [n \in Names |-> IF n \in gone THEN None ELSE r.commands[n]],
    aliases |-> [w \in Words |-> IF w \in freed THEN None ELSE r.aliases[w]],
    fileMap |-> r.fileMap ]

\* unregister of every name in ns, in whatever order.
Unregistered(r, ns) ==
  LET gone == {n \in ns : Has(r, n)}
      freed == UNION {r.commands[n].aliases : n \in gone}
  IN
  [ commands |-> [n \in Names |-> IF n \in gone THEN None ELSE r.commands[n]],
    aliases |-> [w \in Words |-> IF w \in freed THEN None ELSE r.aliases[w]],
    fileMap |-> [f \in Files |-> r.fileMap[f] \ {n \in gone : r.commands[n].file = f}] ]

----------------------------------------------------------------------------
\* The methods.

\* The application registers a command that comes from no file.
Register(d) ==
  /\ Become(Registered(Registry, Command(d, None)))
  /\ stale' = stale \ {d.name}
  /\ overwritten' = (overwritten \/ Has(Registry, d.name))
  /\ UNCHANGED <<loading, newest, overlapped>>

Unregister(n) ==
  /\ Become(Unregistered(Registry, {n}))
  /\ stale' = stale \ {n}
  /\ UNCHANGED <<loading, newest, overlapped, overwritten>>

\* loadModule(f) up to its await.  It goes by the list of names, not by the file of
\* the command that has the name.
BeginLoad(l, f) ==
  /\ loading[l] = None
  /\ Become(Unregistered(Registry, fileMap[f]))
  /\ stale' = {n \in Names : /\ commands'[n] # None
                             /\ n \in stale \/ commands'[n].file = f}
  /\ overlapped' = IF \E k \in Loads : loading[k] = f THEN overlapped \cup {f}
                                                      ELSE overlapped \ {f}
  /\ newest' = [newest EXCEPT ![f] = l]
  /\ loading' = [loading EXCEPT ![l] = f]
  /\ UNCHANGED overwritten

EndLoad(l) == loading' = [loading EXCEPT ![l] = None] /\ UNCHANGED <<newest, overlapped>>

\* History: load l registers ns.
MarkStale(l, ns) == stale' = IF newest[loading[l]] = l THEN stale \ ns ELSE stale \cup ns

\* The import fails, or the module exports no command.
LoadsNothing(l) ==
  /\ loading[l] # None
  /\ EndLoad(l)
  /\ UNCHANGED <<registry, stale, overwritten>>

LoadsOne(l, d) ==
  /\ loading[l] # None
  /\ Become(Registered(Registry, Command(d, loading[l])))
  /\ EndLoad(l)
  /\ MarkStale(l, {d.name})
  /\ overwritten' = (overwritten \/ Has(Registry, d.name))

\* bound: a module exports at most two commands.
LoadsTwo(l, d, e) ==
  LET one == Registered(Registry, Command(d, loading[l])) IN
  /\ loading[l] # None
  /\ Become(Registered(one, Command(e, loading[l])))
  /\ EndLoad(l)
  /\ MarkStale(l, {d.name, e.name})
  /\ overwritten' = (overwritten \/ Has(Registry, d.name) \/ Has(one, e.name))

RegistryNext ==
  \/ \E d \in Definitions : Register(d)
  \/ \E n \in Names : Unregister(n)
  \/ \E l \in Loads :
       \/ \E f \in Files : BeginLoad(l, f)
       \/ LoadsNothing(l)
       \/ \E d \in Definitions : LoadsOne(l, d) \/ \E e \in Definitions : LoadsTwo(l, d, e)

RegistrySpec == RegistryInit /\ [][RegistryNext]_registryVars

----------------------------------------------------------------------------
\* Properties.

\* getCommand: a name before an alias, and an alias whose command is gone finds nothing.
Lookup(w) == IF w \in Names /\ commands[w] # None THEN commands[w]
             ELSE IF aliases[w] # None THEN commands[aliases[w]] ELSE None

\* A load that began while no other load of the file was in progress replaces the
\* file's commands: whatever earlier loads registered, even overlapping ones, and
\* whoever took their names meanwhile, a command of the file is now one of its own.
LoadReplaces ==
  \A f \in Files \ overlapped : OfFile(Registry, f) \cap stale = {}

\* As long as no name was registered over a registered one, what a word finds has
\* that word as its name or declares it as an alias: no order of reloads leaves an
\* alias that leads to another command, or to one that no longer declares it.
AliasesDeclared ==
  ~overwritten => \A w \in Words :
    /\ aliases[w] # None => commands[aliases[w]] # None
    /\ Lookup(w) # None => w = Lookup(w).name \/ w \in Lookup(w).aliases

\* As long as no name was registered over a registered one, the reload of a file
\* removes only commands of this file ("Unregister any prior commands registered from
\* this file path"): the list by which it goes names no others.
ReloadIsLocal ==
  [][~overwritten => \A l \in Loads, f \in Files :
       loading[l] # f /\ loading'[l] = f =>
         \A n \in Names : commands'[n] = IF n \in OfFile(Registry, f) THEN None ELSE commands[n]
    ]_registryVars
=============================================================================
