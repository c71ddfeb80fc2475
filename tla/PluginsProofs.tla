---------------------------- MODULE PluginsProofs ----------------------------
(***************************************************************************)
(* The registry, for any words, files and concurrent loads: its types, that *)
(* a load replaces its file's commands, and that aliases and reloads stay   *)
(* with their own commands while no name is registered twice.               *)
(*                                                                         *)
(* The pipeline, for any number of messages, users and middlewares: a       *)
(* message runs one command at most, the one its guards saw, and the        *)
(* cooldown holds.                                                          *)
(***************************************************************************)
EXTENDS CommandRegistry, MiddlewarePipeline, TLAPS

----------------------------------------------------------------------------
(* The registry.  The invariants are stated of a registry r, since register *)
(* and unregister are functions of one and a load applies register twice.   *)

Registries ==
  [ commands : [Names -> Commands \cup {None}],
    aliases : [Words -> Names \cup {None}],
    fileMap : [Files -> SUBSET Names] ]

Named(r) == \A n \in Names : Has(r, n) => r.commands[n].name = n

\* The file of a command lists it, so that a reload finds it.
Known(r) == \A n \in Names :
  Has(r, n) /\ r.commands[n].file # None => n \in r.fileMap[r.commands[n].file]

\* An alias leads to a command that declares it.
Home(r) == \A w \in Words : r.aliases[w] # None =>
  /\ Has(r, r.aliases[w])
  /\ w \in r.commands[r.aliases[w]].aliases

\* A file lists no names but those of its commands.
Exact(r) == \A f \in Files : \A n \in r.fileMap[f] : Has(r, n) /\ r.commands[n].file = f

Sound(r) == r \in Registries /\ Named(r) /\ Known(r)
Tidy(r) == Home(r) /\ Exact(r)

\* A load that is the only one of its file is its newest.
SoleLoadIsNewest ==
  \A l \in Loads : loading[l] # None /\ loading[l] \notin overlapped => newest[loading[l]] = l

RegistryInv ==
  /\ RegistryTypeOK
  /\ Known(Registry)
  /\ ~overwritten => Tidy(Registry)
  /\ SoleLoadIsNewest
  /\ LoadReplaces

----------------------------------------------------------------------------
\* Facts about register and unregister.

\* A command of a definition and a file is a command, and is not None.
LEMMA CommandType ==
  ASSUME NEW d \in Definitions, NEW f \in Files \cup {None}
  PROVE  /\ Command(d, f) \in Commands /\ Command(d, f) # None
         /\ Command(d, f).name = d.name /\ d.name \in Names
         /\ Command(d, f).file = f /\ Command(d, f).aliases = d.aliases
  BY NoneAssumption DEF Command, Commands, Definitions

\* register keeps a registry sound, whatever it registers over.
LEMMA RegisteredSound ==
  ASSUME NEW r, Sound(r), NEW c \in Commands, c # None
  PROVE  Sound(Registered(r, c))
<1> DEFINE s == Registered(r, c)
<1>1. s.commands = [r.commands EXCEPT ![c.name] = c] /\ c.name \in Names
  BY DEF Registered, Commands
<1>2. s \in Registries
  BY WordsAssumption DEF Registered, Registries, Commands, Sound
<1>3. Named(s)
  BY <1>1 DEF Sound, Named, Has, Registries
<1>4. Known(s)
  <2> SUFFICES ASSUME NEW n \in Names, Has(s, n), s.commands[n].file # None
               PROVE  n \in s.fileMap[s.commands[n].file]
    BY DEF Known
  <2>0. s.commands[n] \in Commands /\ s.commands[n].file \in Files
    BY <1>2 DEF Has, Registries, Commands
  <2>1. s.fileMap[s.commands[n].file]
          = r.fileMap[s.commands[n].file] \cup (IF c.file = s.commands[n].file THEN {c.name} ELSE {})
    BY <2>0 DEF Registered
  <2>2. CASE n = c.name
    BY <1>1, <2>1, <2>2 DEF Sound, Registries
  <2>3. CASE n # c.name
    <3>1. s.commands[n] = r.commands[n]
      BY <1>1, <2>3 DEF Sound, Registries
    <3>2. QED
      BY <3>1, <2>1 DEF Sound, Known, Has
  <2>4. QED
    BY <2>2, <2>3
<1>5. QED
  BY <1>2, <1>3, <1>4 DEF Sound

\* register of a name that is free keeps a registry tidy.
LEMMA RegisteredTidy ==
  ASSUME NEW r, Sound(r), Tidy(r), NEW c \in Commands, c # None, ~Has(r, c.name)
  PROVE  Tidy(Registered(r, c))
<1> DEFINE s == Registered(r, c)
<1>1. s.commands = [r.commands EXCEPT ![c.name] = c] /\ c.name \in Names
  BY DEF Registered, Commands
<1>2. \A n \in Names : n # c.name => s.commands[n] = r.commands[n]
  BY <1>1 DEF Sound, Registries
<1>3. s.commands[c.name] = c
  BY <1>1 DEF Sound, Registries
<1>4. Home(s)
  <2> SUFFICES ASSUME NEW w \in Words, s.aliases[w] # None
               PROVE  Has(s, s.aliases[w]) /\ w \in s.commands[s.aliases[w]].aliases
    BY DEF Home
  <2>1. s.aliases[w] = IF w \in c.aliases THEN c.name ELSE r.aliases[w]
    BY DEF Registered
  <2>2. CASE w \in c.aliases
    BY <2>1, <2>2, <1>3 DEF Has
  <2>3. CASE w \notin c.aliases
    <3>1. r.aliases[w] \in Names /\ r.aliases[w] # c.name
      BY <2>1, <2>3 DEF Tidy, Home, Sound, Registries
    <3>2. QED
      BY <3>1, <2>1, <2>3, <1>2 DEF Tidy, Home, Has
  <2>4. QED
    BY <2>2, <2>3
<1>5. Exact(s)
  <2> SUFFICES ASSUME NEW f \in Files, NEW n \in s.fileMap[f]
               PROVE  Has(s, n) /\ s.commands[n].file = f
    BY DEF Exact
  <2>1. s.fileMap[f] = r.fileMap[f] \cup (IF c.file = f THEN {c.name} ELSE {})
    BY DEF Registered
  <2>2. CASE n \in r.fileMap[f]
    <3>1. Has(r, n) /\ r.commands[n].file = f /\ n \in Names
      BY <2>2 DEF Tidy, Exact, Sound, Registries
    <3>2. QED
      BY <3>1, <1>2 DEF Has
  <2>3. CASE n \notin r.fileMap[f]
    BY <2>1, <2>3, <1>3 DEF Has
  <2>4. QED
    BY <2>2, <2>3
<1>6. QED
  BY <1>4, <1>5 DEF Tidy

\* unregister keeps a registry sound and tidy, removes what it is told to and nothing else.
LEMMA UnregisteredSound ==
  ASSUME NEW r, Sound(r), NEW ns \in SUBSET Names
  PROVE  /\ Sound(Unregistered(r, ns))
         /\ Tidy(r) => Tidy(Unregistered(r, ns))
         /\ \A n \in Names : Unregistered(r, ns).commands[n] = IF n \in ns THEN None ELSE r.commands[n]
<1> DEFINE s == Unregistered(r, ns)
           gone == {n \in ns : Has(r, n)}
           freed == UNION {r.commands[n].aliases : n \in gone}
<1>1. \A n \in Names : s.commands[n] = IF n \in ns THEN None ELSE r.commands[n]
  BY DEF Unregistered, Has
<1>2. \A w \in Words : s.aliases[w] = IF w \in freed THEN None ELSE r.aliases[w]
  BY DEF Unregistered
<1>3. \A f \in Files : s.fileMap[f] = r.fileMap[f] \ {n \in gone : r.commands[n].file = f}
  BY DEF Unregistered
<1>4. s \in Registries
  BY DEF Unregistered, Registries, Sound
<1>5. Named(s)
  BY <1>1 DEF Named, Has, Sound
<1>6. Known(s)
  <2> SUFFICES ASSUME NEW n \in Names, Has(s, n), s.commands[n].file # None
               PROVE  n \in s.fileMap[s.commands[n].file]
    BY DEF Known
  <2>1. n \notin ns /\ s.commands[n] = r.commands[n] /\ Has(r, n)
    BY <1>1 DEF Has
  <2>2. s.commands[n].file \in Files
    BY <1>4 DEF Has, Registries, Commands
  <2>3. n \in r.fileMap[s.commands[n].file]
    BY <2>1 DEF Sound, Known
  <2>4. QED
    BY <1>3, <2>1, <2>2, <2>3
<1>7. ASSUME Tidy(r) PROVE Home(s)
  <2> SUFFICES ASSUME NEW w \in Words, s.aliases[w] # None
               PROVE  Has(s, s.aliases[w]) /\ w \in s.commands[s.aliases[w]].aliases
    BY DEF Home
  <2>1. w \notin freed /\ s.aliases[w] = r.aliases[w]
    BY <1>2
  <2>2. /\ r.aliases[w] \in Names /\ Has(r, r.aliases[w])
        /\ w \in r.commands[r.aliases[w]].aliases
    BY <1>7, <2>1 DEF Tidy, Home, Sound, Registries
  <2>3. r.aliases[w] \notin ns
    BY <2>1, <2>2
  <2>4. QED
    BY <1>1, <2>1, <2>2, <2>3 DEF Has
<1>8. ASSUME Tidy(r) PROVE Exact(s)
  <2> SUFFICES ASSUME NEW f \in Files, NEW n \in s.fileMap[f]
               PROVE  Has(s, n) /\ s.commands[n].file = f
    BY DEF Exact
  <2>1. n \in r.fileMap[f] /\ n \notin {k \in gone : r.commands[k].file = f}
    BY <1>3
  <2>2. Has(r, n) /\ r.commands[n].file = f /\ n \in Names
    BY <1>8, <2>1 DEF Tidy, Exact, Sound, Registries
  <2>3. n \notin ns
    BY <2>1, <2>2
  <2>4. QED
    BY <1>1, <2>2, <2>3 DEF Has
<1>9. QED
  BY <1>1, <1>4, <1>5, <1>6, <1>7, <1>8 DEF Sound, Tidy

----------------------------------------------------------------------------
\* The invariant.

\* The type invariant says that the registry is sound but for Known.
LEMMA RegistrySound ==
  ASSUME RegistryTypeOK
  PROVE  Registry \in Registries /\ Named(Registry)
  BY DEF RegistryTypeOK, Registry, Registries, Named, Has

\* A step that turns the registry into a sound one keeps the types of the maps.
LEMMA BecomeSound ==
  ASSUME NEW r, Sound(r), Become(r)
  PROVE  /\ Registry' = r
         /\ commands' \in [Names -> Commands \cup {None}]
         /\ \A n \in Names : commands'[n] # None => commands'[n].name = n
         /\ aliases' \in [Words -> Names \cup {None}]
         /\ fileMap' \in [Files -> SUBSET Names]
<1>1. /\ r \in Registries
      /\ \A n \in Names : r.commands[n] # None => r.commands[n].name = n
  BY DEF Sound, Named, Has
<1>2. r = [commands |-> r.commands, aliases |-> r.aliases, fileMap |-> r.fileMap]
  BY <1>1 DEF Registries
<1>3. Registry' = r
  BY <1>2 DEF Become, Registry
<1>4. QED
  BY <1>1, <1>3 DEF Become, Registries

\* The empty registry satisfies the invariant.
LEMMA InitRegistryInv == RegistryInit => RegistryInv
  BY NoneAssumption DEF RegistryInit, RegistryInv, RegistryTypeOK, Registry, Known, Tidy, Home, Exact, Has,
     SoleLoadIsNewest, LoadReplaces, OfFile

\* Registering c, by a load or not, over a free name or not, keeps what is said of the
\* registry.
LEMMA RegistersCommand ==
  ASSUME NEW r, Sound(r), NEW busy \in BOOLEAN, ~busy => Tidy(r), NEW c \in Commands, c # None
  PROVE  /\ Sound(Registered(r, c))
         /\ ~(busy \/ Has(r, c.name)) => Tidy(Registered(r, c))
  BY RegisteredSound, RegisteredTidy

\* A command registered without a file cannot be a stale one of a file.
LEMMA RegisterInv ==
  ASSUME RegistryInv, NEW d \in Definitions, Register(d)
  PROVE  RegistryInv'
<1> DEFINE c == Command(d, None)
           r == Registered(Registry, c)
<1>1. /\ c \in Commands /\ c # None /\ c.name = d.name /\ d.name \in Names /\ c.file = None
  BY CommandType
<1>2. Sound(Registry) /\ overwritten \in BOOLEAN /\ (~overwritten => Tidy(Registry))
  BY RegistrySound DEF RegistryInv, Sound, RegistryTypeOK
<1>3. Sound(r) /\ (~overwritten' => Tidy(r))
  BY <1>1, <1>2, RegistersCommand DEF Register
<1>4. /\ Registry' = r
      /\ RegistryTypeOK'
  BY <1>3, BecomeSound DEF Register, RegistryInv, RegistryTypeOK
<1>5. SoleLoadIsNewest'
  BY DEF RegistryInv, SoleLoadIsNewest, Register
<1>6. LoadReplaces'
  <2>1. commands' = [commands EXCEPT ![d.name] = c]
    BY <1>1 DEF Register, Become, Registered, Registry
  <2>2. QED
    BY <1>1, <2>1, NoneAssumption DEF RegistryInv, RegistryTypeOK, LoadReplaces, OfFile, Has, Registry, Register
<1>7. QED
  BY <1>3, <1>4, <1>5, <1>6 DEF RegistryInv, Sound

\* unregister leaves fewer commands of each file.
LEMMA UnregisterInv ==
  ASSUME RegistryInv, NEW n \in Names, Unregister(n)
  PROVE  RegistryInv'
<1> DEFINE r == Unregistered(Registry, {n})
<1>1. Sound(Registry)
  BY RegistrySound DEF RegistryInv, Sound
<1>2. /\ Sound(r) /\ (Tidy(Registry) => Tidy(r))
      /\ \A k \in Names : r.commands[k] = IF k \in {n} THEN None ELSE Registry.commands[k]
  BY <1>1, UnregisteredSound
<1>3. Registry' = r /\ RegistryTypeOK'
  BY <1>2, BecomeSound DEF Unregister, RegistryInv, RegistryTypeOK
<1>4. SoleLoadIsNewest'
  BY DEF RegistryInv, SoleLoadIsNewest, Unregister
<1>5. LoadReplaces'
  <2>1. \A k \in Names : commands'[k] # None => commands'[k] = commands[k]
    BY <1>2, <1>3 DEF Registry
  <2>2. stale' \subseteq stale /\ overlapped' = overlapped
    BY DEF Unregister
  <2>3. \A f \in Files : OfFile(Registry, f)' \subseteq OfFile(Registry, f)
    BY <1>3, <2>1 DEF RegistryInv, RegistryTypeOK, OfFile, Has, Registry
  <2>4. QED
    BY <2>2, <2>3 DEF RegistryInv, LoadReplaces
<1>6. QED
  BY <1>2, <1>3, <1>4, <1>5 DEF RegistryInv, Sound, Unregister

\* When a load begins no command of its file is left: each is listed by it.
LEMMA BeginClears ==
  ASSUME RegistryInv, NEW l \in Loads, NEW f \in Files, BeginLoad(l, f)
  PROVE  /\ \A n \in Names : commands'[n] = IF n \in fileMap[f] THEN None ELSE commands[n]
         /\ \A n \in Names : ~(commands'[n] # None /\ commands'[n].file = f)
<1>1. Sound(Registry) /\ fileMap[f] \in SUBSET Names
  BY RegistrySound DEF RegistryInv, Sound, RegistryTypeOK
<1>2. \A n \in Names : commands'[n] = IF n \in fileMap[f] THEN None ELSE commands[n]
  BY <1>1, UnregisteredSound DEF BeginLoad, Become, Registry
<1>3. ASSUME NEW n \in Names, commands'[n] # None, commands'[n].file = f PROVE FALSE
  BY <1>1, <1>2, <1>3, NoneAssumption DEF Sound, Known, Has, Registry
<1>4. QED
  BY <1>2, <1>3

LEMMA BeginLoadInv ==
  ASSUME RegistryInv, NEW l \in Loads, NEW f \in Files, BeginLoad(l, f)
  PROVE  RegistryInv'
<1> DEFINE r == Unregistered(Registry, fileMap[f])
<1>1. Sound(Registry) /\ fileMap[f] \in SUBSET Names
  BY RegistrySound DEF RegistryInv, Sound, RegistryTypeOK
<1>2. Sound(r) /\ (Tidy(Registry) => Tidy(r))
  BY <1>1, UnregisteredSound
<1>3. Registry' = r /\ RegistryTypeOK'
  BY <1>2, BecomeSound DEF BeginLoad, RegistryInv, RegistryTypeOK
<1>4. SoleLoadIsNewest'
  <2> SUFFICES ASSUME NEW k \in Loads, loading'[k] # None, loading'[k] \notin overlapped'
               PROVE  newest'[loading'[k]] = k
    BY DEF SoleLoadIsNewest
  <2>1. CASE k = l
    BY <2>1 DEF BeginLoad, RegistryInv, RegistryTypeOK
  <2>2. CASE k # l
    <3>1. loading'[k] = loading[k]
      BY <2>2 DEF BeginLoad, RegistryInv, RegistryTypeOK
    <3>2. loading[k] # f
      BY <3>1 DEF BeginLoad
    <3>3. loading[k] \notin overlapped /\ newest'[loading[k]] = newest[loading[k]]
      BY <3>1, <3>2 DEF BeginLoad, RegistryInv, RegistryTypeOK
    <3>4. QED
      BY <3>1, <3>3 DEF RegistryInv, SoleLoadIsNewest
  <2>3. QED
    BY <2>1, <2>2
<1>5. LoadReplaces'
  <2> SUFFICES ASSUME NEW g \in Files \ overlapped', NEW n \in OfFile(Registry, g)', n \in stale'
               PROVE  FALSE
    BY DEF LoadReplaces
  <2>1. n \in Names /\ commands'[n] # None /\ commands'[n].file = g
    BY <1>3 DEF OfFile, Has, Registry, RegistryTypeOK
  <2>2. g # f
    BY <2>1, BeginClears
  <2>3. n \in stale /\ commands[n] = commands'[n]
    BY <2>1, <2>2, BeginClears DEF BeginLoad
  <2>4. g \notin overlapped
    BY <2>2 DEF BeginLoad
  <2>5. QED
    BY <2>1, <2>3, <2>4 DEF RegistryInv, LoadReplaces, OfFile, Has, Registry, RegistryTypeOK
<1>6. QED
  BY <1>2, <1>3, <1>4, <1>5 DEF RegistryInv, Sound, BeginLoad

\* The end of a load begins none and overlaps none.
LEMMA EndLoadSole ==
  ASSUME RegistryInv, NEW l \in Loads, EndLoad(l)
  PROVE  SoleLoadIsNewest' /\ loading' \in [Loads -> Files \cup {None}]
  BY DEF RegistryInv, RegistryTypeOK, SoleLoadIsNewest, EndLoad

\* What a load registers is stale only if a newer load of the file overlapped it.
LEMMA MarkedStale ==
  ASSUME RegistryInv, NEW l \in Loads, loading[l] # None, NEW ns \in SUBSET Names, MarkStale(l, ns),
         overlapped' = overlapped, commands' \in [Names -> Commands \cup {None}],
         \A n \in Names \ ns : commands'[n] = commands[n],
         \A n \in ns : commands'[n] # None => commands'[n].file = loading[l]
  PROVE  LoadReplaces' /\ stale' \subseteq Names
<1>1. stale' \subseteq Names /\ \A n \in Names \ ns : n \in stale' => n \in stale
  BY DEF MarkStale, RegistryInv, RegistryTypeOK
<1> SUFFICES ASSUME NEW g \in Files \ overlapped, NEW n \in OfFile(Registry, g)', n \in stale'
             PROVE  FALSE
  BY <1>1 DEF LoadReplaces
<1>2. n \in Names /\ commands'[n] # None /\ commands'[n].file = g
  BY DEF OfFile, Has, Registry
<1>3. CASE n \in ns
  <2>1. g = loading[l]
    BY <1>2, <1>3
  <2>2. newest[loading[l]] = l
    BY <2>1 DEF RegistryInv, SoleLoadIsNewest
  <2>3. QED
    BY <1>3, <2>2 DEF MarkStale
<1>4. CASE n \notin ns
  BY <1>1, <1>2, <1>4 DEF RegistryInv, RegistryTypeOK, LoadReplaces, OfFile, Has, Registry
<1>5. QED
  BY <1>3, <1>4

LEMMA LoadsNothingInv ==
  ASSUME RegistryInv, NEW l \in Loads, LoadsNothing(l)
  PROVE  RegistryInv'
<1>1. SoleLoadIsNewest' /\ loading' \in [Loads -> Files \cup {None}]
  BY EndLoadSole DEF LoadsNothing
<1>2. Registry' = Registry /\ stale' = stale /\ overlapped' = overlapped
  BY DEF LoadsNothing, EndLoad, registry, Registry
<1>3. LoadReplaces'
  BY <1>2 DEF RegistryInv, LoadReplaces, OfFile, Has
<1>4. RegistryTypeOK'
  BY <1>1 DEF RegistryInv, RegistryTypeOK, LoadsNothing, EndLoad, registry
<1>5. QED
  BY <1>1, <1>2, <1>3, <1>4 DEF RegistryInv, LoadsNothing

LEMMA LoadsOneInv ==
  ASSUME RegistryInv, NEW l \in Loads, NEW d \in Definitions, LoadsOne(l, d)
  PROVE  RegistryInv'
<1> DEFINE c == Command(d, loading[l])
           r == Registered(Registry, c)
<1>0. loading[l] \in Files \cup {None}
  BY DEF RegistryInv, RegistryTypeOK
<1>1. /\ c \in Commands /\ c # None /\ c.name = d.name /\ d.name \in Names /\ c.file = loading[l]
  BY <1>0, CommandType
<1>2. Sound(Registry) /\ overwritten \in BOOLEAN /\ (~overwritten => Tidy(Registry))
  BY RegistrySound DEF RegistryInv, Sound, RegistryTypeOK
<1>3. Sound(r) /\ (~overwritten' => Tidy(r))
  BY <1>1, <1>2, RegistersCommand DEF LoadsOne
<1>4. SoleLoadIsNewest' /\ loading' \in [Loads -> Files \cup {None}]
  BY EndLoadSole DEF LoadsOne
<1>5. Registry' = r /\ commands' \in [Names -> Commands \cup {None}]
  BY <1>3, BecomeSound DEF LoadsOne
<1>6. commands' = [commands EXCEPT ![d.name] = c]
  BY <1>1 DEF LoadsOne, Become, Registered, Registry
<1>7. LoadReplaces' /\ stale' \subseteq Names
  <2>1. \A n \in Names \ {d.name} : commands'[n] = commands[n]
    BY <1>6 DEF RegistryInv, RegistryTypeOK
  <2>2. commands'[d.name].file = loading[l]
    BY <1>1, <1>6 DEF RegistryInv, RegistryTypeOK
  <2>3. QED
    BY <1>1, <1>5, <2>1, <2>2, MarkedStale DEF LoadsOne, EndLoad
<1>8. RegistryTypeOK'
  BY <1>2, <1>3, <1>4, <1>7, BecomeSound DEF RegistryInv, RegistryTypeOK, LoadsOne, EndLoad, Has
<1>9. QED
  BY <1>3, <1>4, <1>5, <1>7, <1>8 DEF RegistryInv, Sound

LEMMA LoadsTwoInv ==
  ASSUME RegistryInv, NEW l \in Loads, NEW d \in Definitions, NEW e \in Definitions, LoadsTwo(l, d, e)
  PROVE  RegistryInv'
<1> DEFINE c == Command(d, loading[l])
           one == Registered(Registry, c)
           b == Command(e, loading[l])
           r == Registered(one, b)
           busy == overwritten \/ Has(Registry, d.name)
<1>0. loading[l] \in Files \cup {None}
  BY DEF RegistryInv, RegistryTypeOK
<1>1. /\ c \in Commands /\ c # None /\ c.name = d.name /\ d.name \in Names /\ c.file = loading[l]
      /\ b \in Commands /\ b # None /\ b.name = e.name /\ e.name \in Names /\ b.file = loading[l]
  BY <1>0, CommandType
<1>2. Sound(Registry) /\ overwritten \in BOOLEAN /\ (~overwritten => Tidy(Registry))
  BY RegistrySound DEF RegistryInv, Sound, RegistryTypeOK
<1>3. Sound(one) /\ (~busy => Tidy(one)) /\ busy \in BOOLEAN
  BY <1>1, <1>2, RegistersCommand DEF Has
<1>4. Sound(r) /\ (~(busy \/ Has(one, e.name)) => Tidy(r))
  BY <1>1, <1>3, RegistersCommand
<1>5. Become(r) /\ overwritten' = (busy \/ Has(one, e.name))
  BY DEF LoadsTwo
<1>6. SoleLoadIsNewest' /\ loading' \in [Loads -> Files \cup {None}]
  BY EndLoadSole DEF LoadsTwo
<1>7. Registry' = r /\ commands' \in [Names -> Commands \cup {None}]
  BY <1>4, <1>5, BecomeSound
<1>8. commands' = [[commands EXCEPT ![d.name] = c] EXCEPT ![e.name] = b]
  BY <1>1, <1>5 DEF Become, Registered, Registry
<1>9. LoadReplaces' /\ stale' \subseteq Names
  <2>1. \A n \in Names \ {d.name, e.name} : commands'[n] = commands[n]
    BY <1>8 DEF RegistryInv, RegistryTypeOK
  <2>2. \A n \in {d.name, e.name} : commands'[n] # None => commands'[n].file = loading[l]
    BY <1>1, <1>8 DEF RegistryInv, RegistryTypeOK
  <2>3. QED
    BY <1>1, <1>7, <2>1, <2>2, MarkedStale DEF LoadsTwo, EndLoad
<1>10. RegistryTypeOK'
  BY <1>3, <1>4, <1>5, <1>6, <1>9, BecomeSound DEF RegistryInv, RegistryTypeOK, LoadsTwo, EndLoad, Has
<1>11. QED
  BY <1>4, <1>5, <1>6, <1>7, <1>9, <1>10 DEF RegistryInv, Sound

LEMMA NextRegistryInv == RegistryInv /\ [RegistryNext]_registryVars => RegistryInv'
<1> SUFFICES ASSUME RegistryInv, [RegistryNext]_registryVars PROVE RegistryInv'
  OBVIOUS
<1>1. CASE UNCHANGED registryVars
  BY <1>1 DEF RegistryInv, RegistryTypeOK, Known, Tidy, Home, Exact, Has, Registry, SoleLoadIsNewest,
     LoadReplaces, OfFile, registryVars, registry, loadHistory
<1>2. CASE \E d \in Definitions : Register(d)
  BY <1>2, RegisterInv
<1>3. CASE \E n \in Names : Unregister(n)
  BY <1>3, UnregisterInv
<1>4. CASE \E l \in Loads, f \in Files : BeginLoad(l, f)
  BY <1>4, BeginLoadInv
<1>5. CASE \E l \in Loads : LoadsNothing(l)
  BY <1>5, LoadsNothingInv
<1>6. CASE \E l \in Loads, d \in Definitions : LoadsOne(l, d)
  BY <1>6, LoadsOneInv
<1>7. CASE \E l \in Loads, d \in Definitions, e \in Definitions : LoadsTwo(l, d, e)
  BY <1>7, LoadsTwoInv
<1>8. QED
  BY <1>1, <1>2, <1>3, <1>4, <1>5, <1>6, <1>7 DEF RegistryNext

LEMMA SpecRegistryInv == RegistrySpec => []RegistryInv
  BY InitRegistryInv, NextRegistryInv, PTL DEF RegistrySpec

----------------------------------------------------------------------------

\* The registry's variables keep their types, and a command is stored under its name.
THEOREM RegistryTypeCorrect == RegistrySpec => []RegistryTypeOK
<1>1. RegistryInv => RegistryTypeOK
  BY DEF RegistryInv
<1>2. QED
  BY <1>1, SpecRegistryInv, PTL

\* A reload that overlaps no other leaves no command of an earlier load of the file.
THEOREM LoadsReplace == RegistrySpec => []LoadReplaces
<1>1. RegistryInv => LoadReplaces
  BY DEF RegistryInv
<1>2. QED
  BY <1>1, SpecRegistryInv, PTL

\* While no name was registered twice, what a word finds has it as a name or an alias.
THEOREM AliasesLeadHome == RegistrySpec => []AliasesDeclared
<1>1. RegistryInv => AliasesDeclared
  <2> SUFFICES ASSUME RegistryInv, ~overwritten, NEW w \in Words
               PROVE  /\ aliases[w] # None => commands[aliases[w]] # None
                      /\ Lookup(w) # None => w = Lookup(w).name \/ w \in Lookup(w).aliases
    BY DEF AliasesDeclared
  <2>1. aliases[w] # None => /\ commands[aliases[w]] # None
                             /\ w \in commands[aliases[w]].aliases
    BY DEF RegistryInv, Tidy, Home, Has, Registry
  <2>2. \A n \in Names : commands[n] # None => commands[n].name = n
    BY DEF RegistryInv, RegistryTypeOK
  <2>3. QED
    BY <2>1, <2>2 DEF Lookup
<1>2. QED
  BY <1>1, SpecRegistryInv, PTL

\* While no name was registered twice, a reload removes its file's commands and no others.
THEOREM ReloadsAreLocal == RegistrySpec => ReloadIsLocal
<1> DEFINE Local ==
      ~overwritten => \A l \in Loads, f \in Files :
        loading[l] # f /\ loading'[l] = f =>
          \A n \in Names : commands'[n] = IF n \in OfFile(Registry, f) THEN None ELSE commands[n]
<1>1. RegistryInv /\ [RegistryNext]_registryVars => [Local]_registryVars
  <2> SUFFICES ASSUME RegistryInv, RegistryNext, ~overwritten, NEW l \in Loads, NEW f \in Files,
                      loading[l] # f, loading'[l] = f
               PROVE  \A n \in Names :
                        commands'[n] = IF n \in OfFile(Registry, f) THEN None ELSE commands[n]
    OBVIOUS
  <2>1. BeginLoad(l, f)
    <3>1. f # None
      BY NoneAssumption
    <3>2. ASSUME NEW k \in Loads, NEW g \in Files, BeginLoad(k, g) PROVE k = l /\ g = f
      BY <3>2 DEF BeginLoad, RegistryInv, RegistryTypeOK
    <3>3. ASSUME NEW k \in Loads, EndLoad(k) PROVE FALSE
      BY <3>1, <3>3 DEF EndLoad, RegistryInv, RegistryTypeOK
    <3>4. ASSUME UNCHANGED loading PROVE FALSE
      BY <3>4
    <3>5. QED
      BY <3>2, <3>3, <3>4 DEF RegistryNext, Register, Unregister, LoadsNothing, LoadsOne, LoadsTwo
  <2>2. \A n \in Names : commands'[n] = IF n \in fileMap[f] THEN None ELSE commands[n]
    BY <2>1, BeginClears
  <2>3. \A n \in Names : n \in fileMap[f] <=> n \in OfFile(Registry, f)
    BY NoneAssumption DEF RegistryInv, Tidy, Exact, Known, OfFile, Has, Registry, RegistryTypeOK
  <2>4. QED
    BY <2>2, <2>3
<1>2. QED
  BY <1>1, SpecRegistryInv, PTL DEF RegistrySpec, ReloadIsLocal

----------------------------------------------------------------------------
(* The pipeline. *)

\* A message under way has a command, and has run nothing or this command.  Until it has
\* run it, the runner is at a middleware that exists.
RunsWhatWasFound ==
  \A m \in Messages :
    /\ found[m] = NoCommand => index[m] = 0
    /\ ran[m] = <<>> => index[m] <= customs
    /\ ran[m] # <<>> => found[m] # NoCommand /\ ran[m] = <<found[m]>>

\* The admin guard has seen the command a message is under way to.
FoundIsAllowed ==
  \A m \in Messages : found[m] # NoCommand => (found[m].restricted => sender[m] \in Owners)

\* A user who was let through has a key in userCooldowns.
PassedIsCooling ==
  \A u \in Users : passed[u] = 0 \/ (passed[u] = 1 /\ <<u, Name>> \in cooling)

PipelineInv == PipelineTypeOK /\ RunsWhatWasFound /\ FoundIsAllowed /\ PassedIsCooling

\* At the start no message is under way.
LEMMA InitPipelineInv == PipelineInit => PipelineInv
<1> SUFFICES ASSUME PipelineInit PROVE PipelineInv
  OBVIOUS
<1>1. PipelineTypeOK
  BY CustomAssumption DEF PipelineInit, PipelineTypeOK
<1>2. RunsWhatWasFound /\ FoundIsAllowed /\ PassedIsCooling
  BY DEF PipelineInit, RunsWhatWasFound, FoundIsAllowed, PassedIsCooling
<1>3. QED
  BY <1>1, <1>2 DEF PipelineInv

\* The runner comes to place i of a message that has a command and has run none.
LEMMA RunnerMoves ==
  ASSUME PipelineInv, NEW m \in Messages, NEW d \in GuardData, ran[m] = <<>>,
         NEW i \in Nat, i = index[m] + 1,
         Runner(m, i, d), customs' = customs,
         found'[m] = d, d # NoCommand,
         \A k \in Messages \ {m} : found'[k] = found[k]
  PROVE  /\ index' \in [Messages -> 0..MaxCustom + 1]
         /\ ran' \in [Messages -> Seq(GuardData)]
         /\ RunsWhatWasFound'
<1> USE DEF PipelineInv, PipelineTypeOK
<1>1. index[m] <= customs /\ i \in 0..MaxCustom + 1
  BY CustomAssumption DEF RunsWhatWasFound
<1>2. index' \in [Messages -> 0..MaxCustom + 1] /\ index'[m] = i
  BY <1>1 DEF Runner
<1>3. Append(ran[m], d) = <<d>> /\ <<d>> \in Seq(GuardData)
  OBVIOUS
<1>4. /\ ran' \in [Messages -> Seq(GuardData)]
      /\ ran'[m] = IF i = customs + 1 THEN <<d>> ELSE <<>>
  BY <1>3 DEF Runner
<1>5. \A k \in Messages \ {m} : index'[k] = index[k] /\ ran'[k] = ran[k]
  BY DEF Runner
<1>6. /\ found'[m] = NoCommand => index'[m] = 0
      /\ ran'[m] = <<>> => index'[m] <= customs'
      /\ ran'[m] # <<>> => found'[m] # NoCommand /\ ran'[m] = <<found'[m]>>
  BY <1>1, <1>2, <1>4
<1>7. RunsWhatWasFound'
  BY <1>5, <1>6 DEF RunsWhatWasFound
<1>8. QED
  BY <1>2, <1>4, <1>7

\* A message arrives: the guards have seen what is found for it.
LEMMA HandleMessageInv ==
  ASSUME PipelineInv, NEW m \in Messages, NEW w \in {Name} \cup Aliases, HandleMessage(m, w)
  PROVE  PipelineInv'
<1>1. command \in GuardData /\ command # NoCommand /\ found[m] = NoCommand /\ index[m] = 0 /\ ran[m] = <<>>
  BY DEF HandleMessage, PipelineInv, PipelineTypeOK, RunsWhatWasFound
<1>2. /\ found' \in [Messages -> GuardData \cup {NoCommand}]
      /\ found'[m] = command
      /\ \A k \in Messages \ {m} : found'[k] = found[k]
  BY <1>1 DEF HandleMessage, PipelineInv, PipelineTypeOK
<1>3. /\ index' \in [Messages -> 0..MaxCustom + 1]
      /\ ran' \in [Messages -> Seq(GuardData)]
      /\ RunsWhatWasFound'
  BY <1>1, <1>2, RunnerMoves DEF HandleMessage
<1>4. FoundIsAllowed'
  BY <1>2 DEF HandleMessage, AdminGuardPasses, PipelineInv, FoundIsAllowed
<1>5. sender[m] \in Users
  BY DEF PipelineInv, PipelineTypeOK
<1>6. /\ cooling' \subseteq Users \X ({Name} \cup Aliases)
      /\ passed' \in [Users -> Nat]
      /\ PassedIsCooling'
  <2> USE DEF HandleMessage, CooldownGuardPasses, CooldownKey, PipelineInv, PipelineTypeOK
  <2>1. CASE ~command.limited
    BY <2>1 DEF PassedIsCooling
  <2>2. CASE command.limited
    <3>1. <<sender[m], Name>> \notin cooling /\ passed[sender[m]] = 0
      BY <1>5, <2>2 DEF PassedIsCooling
    <3>2. passed' = [passed EXCEPT ![sender[m]] = 1]
      BY <2>2, <3>1
    <3>3. cooling' = cooling \cup {<<sender[m], Name>>}
      BY <2>2
    <3>4. PassedIsCooling'
      BY <1>5, <3>2, <3>3 DEF PassedIsCooling
    <3>5. QED
      BY <1>5, <3>2, <3>3, <3>4
  <2>3. QED
    BY <2>1, <2>2
<1>7. QED
  BY <1>2, <1>3, <1>4, <1>6 DEF PipelineInv, PipelineTypeOK, HandleMessage

\* A middleware calls next where the runner has not been: nothing has run yet.
LEMMA CallNextInv ==
  ASSUME PipelineInv, NEW m \in Messages, NEW k \in Called(m), CallNext(m, k)
  PROVE  PipelineInv'
<1>1. index[m] \in Nat /\ k \in Nat /\ k >= 1 /\ k <= index[m] /\ (ran[m] # <<>> => k < index[m])
  BY DEF Called, PipelineInv, PipelineTypeOK
<1>2. ran[m] = <<>> /\ k + 1 = index[m] + 1
  BY <1>1 DEF CallNext, IsNext
<1>3. found[m] # NoCommand /\ found[m] \in GuardData
  BY <1>1 DEF PipelineInv, PipelineTypeOK, RunsWhatWasFound
<1>4. /\ index' \in [Messages -> 0..MaxCustom + 1]
      /\ ran' \in [Messages -> Seq(GuardData)]
      /\ RunsWhatWasFound'
  BY <1>1, <1>2, <1>3, RunnerMoves DEF CallNext, Target
<1>5. FoundIsAllowed' /\ PassedIsCooling'
  BY DEF CallNext, PipelineInv, FoundIsAllowed, PassedIsCooling
<1>6. QED
  BY <1>4, <1>5 DEF PipelineInv, PipelineTypeOK, CallNext

LEMMA NextPipelineInv == PipelineInv /\ [PipelineNext]_pipelineVars => PipelineInv'
<1> SUFFICES ASSUME PipelineInv, [PipelineNext]_pipelineVars PROVE PipelineInv'
  OBVIOUS
<1>1. ASSUME NEW m \in Messages, NEW w \in {Name} \cup Aliases, HandleMessage(m, w) PROVE PipelineInv'
  BY <1>1, HandleMessageInv
<1>2. ASSUME NEW m \in Messages, NEW k \in Called(m), CallNext(m, k) PROVE PipelineInv'
  BY <1>2, CallNextInv
<1>3. CASE Use
  <2>1. PipelineTypeOK' /\ FoundIsAllowed' /\ PassedIsCooling'
    BY <1>3, CustomAssumption DEF Use, PipelineInv, PipelineTypeOK, FoundIsAllowed, PassedIsCooling
  <2>2. RunsWhatWasFound'
    BY <1>3 DEF Use, PipelineInv, PipelineTypeOK, RunsWhatWasFound
  <2>3. QED
    BY <2>1, <2>2 DEF PipelineInv
<1>4. CASE Replace
  BY <1>4 DEF Replace, PipelineInv, PipelineTypeOK, RunsWhatWasFound, FoundIsAllowed, PassedIsCooling
<1>5. ASSUME NEW u \in Users, CoolDown(u) PROVE PipelineInv'
  <2>1. PipelineTypeOK' /\ RunsWhatWasFound' /\ FoundIsAllowed'
    BY <1>5 DEF CoolDown, PipelineInv, PipelineTypeOK, RunsWhatWasFound, FoundIsAllowed
  <2>2. PassedIsCooling'
    BY <1>5 DEF CoolDown, PipelineInv, PipelineTypeOK, PassedIsCooling
  <2>3. QED
    BY <2>1, <2>2 DEF PipelineInv
<1>6. CASE UNCHANGED pipelineVars
  BY <1>6 DEF PipelineInv, PipelineTypeOK, RunsWhatWasFound, FoundIsAllowed, PassedIsCooling, pipelineVars
<1>7. QED
  BY <1>1, <1>2, <1>3, <1>4, <1>5, <1>6 DEF PipelineNext

LEMMA SpecPipelineInv == PipelineSpec => []PipelineInv
  BY InitPipelineInv, NextPipelineInv, PTL DEF PipelineSpec

----------------------------------------------------------------------------

\* The pipeline's variables keep their types: the runner never passes the command.
THEOREM PipelineTypeCorrect == PipelineSpec => []PipelineTypeOK
<1>1. PipelineInv => PipelineTypeOK
  BY DEF PipelineInv
<1>2. QED
  BY <1>1, SpecPipelineInv, PTL

\* A message runs at most one command, whatever the middlewares do with next.
THEOREM RunsOnce == PipelineSpec => []AtMostOneRun
<1>1. PipelineInv => AtMostOneRun
  <2> SUFFICES ASSUME PipelineInv, NEW m \in Messages PROVE Len(ran[m]) <= 1
    BY DEF AtMostOneRun
  <2>1. ran[m] = <<>> \/ ran[m] = <<found[m]>>
    BY DEF PipelineInv, RunsWhatWasFound
  <2>2. Len(<<>>) <= 1 /\ Len(<<found[m]>>) <= 1
    OBVIOUS
  <2>3. QED
    BY <2>1, <2>2, Zenon
<1>2. QED
  BY <1>1, SpecPipelineInv, PTL

\* What runs for somebody who is not an owner is not restricted, whatever is reloaded.
THEOREM GuardedRuns == PipelineSpec => []RestrictedRunsForOwners
<1>1. PipelineInv => RestrictedRunsForOwners
  <2> SUFFICES ASSUME PipelineInv, NEW m \in Messages, NEW d \in Range(ran[m]), d.restricted
               PROVE  sender[m] \in Owners
    BY DEF RestrictedRunsForOwners
  <2>1. ran[m] # <<>>
    BY DEF Range
  <2>2. found[m] # NoCommand /\ d = found[m]
    BY <2>1 DEF PipelineInv, RunsWhatWasFound, Range
  <2>3. QED
    BY <2>2 DEF PipelineInv, FoundIsAllowed
<1>2. QED
  BY <1>1, SpecPipelineInv, PTL

\* Until the cooldown is over one message of a user is let through.
THEOREM CooldownHolds == PipelineSpec => []OncePerCooldown
<1>1. PipelineInv => OncePerCooldown
  <2> SUFFICES ASSUME PipelineInv, NEW u \in Users PROVE passed[u] <= 1
    BY DEF OncePerCooldown
  <2>1. passed[u] = 0 \/ passed[u] = 1
    BY DEF PipelineInv, PassedIsCooling
  <2>2. QED
    BY <2>1
<1>2. QED
  BY <1>1, SpecPipelineInv, PTL
=============================================================================
