------------------------------- MODULE MCPlugins -------------------------------
(***************************************************************************)
(* The registry and the pipeline of the plugins for one run.  The pipeline  *)
(* takes what the registry does for a command that is replaced at any time, *)
(* so a behaviour runs one of them and the other stays as it is: the states *)
(* of the two are added, not multiplied.  No definition tells two names,    *)
(* two files or two loads apart, and only safety is checked.                *)
(***************************************************************************)
EXTENDS CommandRegistry, MiddlewarePipeline, TLC

VARIABLE part  \* which of the two runs

pluginsVars == <<part, registryVars, pipelineVars>>

PluginsInit ==
  /\ part \in {"registry", "pipeline"}
  /\ RegistryInit /\ PipelineInit
  /\ part = "registry" =>
       command = NoCommand /\ \A m, n \in Messages : sender[m] = sender[n] /\ sender[m] \in Owners

RegistryStep == part = "registry" /\ RegistryNext /\ UNCHANGED <<part, pipelineVars>>
PipelineStep == part = "pipeline" /\ PipelineNext /\ UNCHANGED <<part, registryVars>>

PluginsSpec == PluginsInit /\ [][RegistryStep \/ PipelineStep]_pluginsVars

PluginsSymmetry == Permutations(Names) \cup Permutations(Files) \cup Permutations(Loads)
=============================================================================
