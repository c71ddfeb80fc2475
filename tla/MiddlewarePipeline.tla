-------------------------- MODULE MiddlewarePipeline --------------------------
(***************************************************************************)
(* A message on its way to a command: handleMessage of                      *)
(* wazeko/src/plugins/command-loader.ts and MiddlewarePipeline of           *)
(* middleware.ts, while CommandRegistry replaces the command.               *)
(*                                                                         *)
(* The three middlewares of the constructor, the logger, the admin guard    *)
(* and the cooldown guard, call next in the turn in which they are called,  *)
(* so everything from the arrival of a message to the first middleware of   *)
(* the application is one step.  What those do is theirs: each may call     *)
(* next never, once or again, soon or late, or after it returned.           *)
(*                                                                         *)
(* One command is modelled, by what the guards read of it, and the words    *)
(* that find it.  A message the guards refuse gets a reply and nothing else *)
(* happens; so does, without the reply, one whose word finds no command.    *)
(*                                                                         *)
(* A definition marked "slip" is a mistake that no specification uses: see  *)
(* MessageQueue.                                                            *)
(***************************************************************************)
EXTENDS Naturals, Sequences, Functions

CONSTANTS
  Messages,   \* the messages that arrive
  Users,      \* who sends them
  Owners,     \* options.ownerJids
  Name,       \* the command's name
  Aliases,    \* its aliases
  MaxCustom,  \* bound: middlewares the application adds
  NoCommand        \* the command is not registered

ASSUME OwnersAssumption == Owners \subseteq Users
ASSUME CustomAssumption == MaxCustom \in Nat

\* restricted: adminOnly or ownerOnly, which is the same here since handleMessage sets
\* isAdmin to false.  limited: cooldownSeconds above 0, and then always the same.
GuardData == [restricted : BOOLEAN, limited : BOOLEAN]

VARIABLES
  command,  \* the definition the registry has now
  customs,  \* how many middlewares the application has added with use()
  cooling,  \* the keys of userCooldowns that are less than cooldownSeconds old
  found,    \* the definition getCommand found for a message
  sender,
  index,    \* how far runner has come for a message, the first middlewares not counted
  ran,      \* history: the definitions that were executed for a message
  passed    \* history: messages of a user the cooldown let through and that are not yet cold

pipelineVars == <<command, customs, cooling, found, sender, index, ran, passed>>

PipelineTypeOK ==
  /\ command \in GuardData \cup {NoCommand}
  /\ customs \in 0..MaxCustom
  /\ cooling \subseteq Users \X ({Name} \cup Aliases)
  /\ found \in [Messages -> GuardData \cup {NoCommand}]
  /\ sender \in [Messages -> Users]
  /\ index \in [Messages -> 0..MaxCustom + 1]
  /\ ran \in [Messages -> Seq(GuardData)]
  /\ passed \in [Users -> Nat]

PipelineInit ==
  /\ command \in GuardData \cup {NoCommand}
  /\ customs = 0
  /\ cooling = {}
  /\ found = [m \in Messages |-> NoCommand]
  /\ sender \in [Messages -> Users]
  /\ index = [m \in Messages |-> 0]
  /\ ran = [m \in Messages |-> <<>>]
  /\ passed = [u \in Users |-> 0]

----------------------------------------------------------------------------

\* slip: the command is looked up again when its turn has come.
TargetNow(m) == IF command = NoCommand THEN found[m] ELSE command
\* What the last call of runner executes: handleMessage's command, kept in a closure.
Target(m) == found[m]

\* runner(i): the next middleware, or the command d when there is no further one at
\* this moment.
Runner(m, i, d) ==
  /\ index' = [index EXCEPT ![m] = i]
  /\ ran' = IF i = customs + 1 THEN [ran EXCEPT ![m] = Append(@, d)] ELSE ran

AdminGuardPasses(u) == command.restricted => u \in Owners

\* slip: the cooldown is kept by the word that was typed.
CooldownKeyTyped(u, w) == <<u, w>>
CooldownKey(u, w) == <<u, Name>>

CooldownGuardPasses(u, w) ==
  IF command.limited
  THEN /\ CooldownKey(u, w) \notin cooling
       /\ cooling' = cooling \cup {CooldownKey(u, w)}
       /\ passed' = [passed EXCEPT ![u] = @ + 1]
  ELSE UNCHANGED <<cooling, passed>>

HandleMessage(m, w) ==
  /\ found[m] = NoCommand /\ command # NoCommand
  /\ found' = [found EXCEPT ![m] = command]
  /\ AdminGuardPasses(sender[m])
  /\ CooldownGuardPasses(sender[m], w)
  /\ Runner(m, 1, command)
  /\ UNCHANGED <<command, customs, sender>>

\* The application's middlewares that have been called for message m.
Called(m) == 1..(IF ran[m] = <<>> THEN index[m] ELSE index[m] - 1)

\* slip: < for <= in the test of the runner.
IsNextAgain(m, i) == i >= index[m]
IsNext(m, i) == i > index[m]

\* Middleware k calls next.  Where the runner has been, next throws and changes nothing.
CallNext(m, k) ==
  /\ IsNext(m, k + 1)
  /\ Runner(m, k + 1, Target(m))
  /\ UNCHANGED <<command, customs, cooling, found, sender, passed>>

\* use(), while messages may be under way.
Use ==
  /\ customs < MaxCustom
  /\ customs' = customs + 1
  /\ UNCHANGED <<command, cooling, found, sender, index, ran, passed>>

\* The registry replaces the command, or loses it.
Replace ==
  /\ command' \in GuardData \cup {NoCommand}
  /\ UNCHANGED <<customs, cooling, found, sender, index, ran, passed>>

\* External: cooldownSeconds pass after a user's last command.
CoolDown(u) ==
  /\ cooling' = {key \in cooling : key[1] # u}
  /\ passed' = [passed EXCEPT ![u] = 0]
  /\ UNCHANGED <<command, customs, found, sender, index, ran>>

PipelineNext ==
  \/ \E m \in Messages : \/ \E w \in {Name} \cup Aliases : HandleMessage(m, w)
                         \/ \E k \in Called(m) : CallNext(m, k)
  \/ Use
  \/ Replace
  \/ \E u \in Users : CoolDown(u)

PipelineSpec == PipelineInit /\ [][PipelineNext]_pipelineVars

----------------------------------------------------------------------------
\* Properties.

\* A message runs its command at most once, however often and however late each
\* middleware calls next, and also when middlewares are added meanwhile.
AtMostOneRun == \A m \in Messages : Len(ran[m]) <= 1

\* A restricted command runs for owners only, also when the registry replaces the
\* command between the guard and the run: what runs is what the guard saw.
RestrictedRunsForOwners ==
  \A m \in Messages : \A d \in Range(ran[m]) : d.restricted => sender[m] \in Owners

\* Until the cooldown is over a user gets one message through to a command, by
\* whichever of its names and however often it is reloaded.
OncePerCooldown == \A u \in Users : passed[u] <= 1
=============================================================================
