------------------------------- MODULE MCDesk --------------------------------
(***************************************************************************)
(* One run for the modules of the workbench's page and of the handlers     *)
(* beside it.  They share no variable but the calls, so a behaviour of all *)
(* is a behaviour of each: every behaviour here is one module's alone.     *)
(***************************************************************************)
EXTENDS Library, BackOffice, Translator, Composer, Runner, Realtime, TLC

VARIABLE desk  \* whose behaviour it is

Init ==
  /\ CallsInit /\ LibraryInit /\ OfficeInit /\ TranslatorInit /\ ComposerInit /\ RunnerInit
  /\ RealtimeInit
  /\ desk \in {"library", "office", "translator", "composer", "runner", "realtime"}
  /\ desk # "office" => gatewayKey = {}

Only(name, vars) == desk = name /\ UNCHANGED vars

Next ==
  /\ \/ Only("library", <<officeVars, translatorVars, composerVars, runnerVars, realtimeVars>>) /\ LibraryNext
     \/ Only("office", <<libraryVars, translatorVars, composerVars, runnerVars, realtimeVars>>) /\ OfficeNext
     \/ Only("translator", <<call, libraryVars, officeVars, composerVars, runnerVars, realtimeVars>>) /\ TranslatorNext
     \/ Only("composer", <<call, libraryVars, officeVars, translatorVars, runnerVars, realtimeVars>>) /\ ComposerNext
     \/ Only("runner", <<call, libraryVars, officeVars, translatorVars, composerVars, realtimeVars>>) /\ RunnerNext
     \/ Only("realtime", <<call, libraryVars, officeVars, translatorVars, composerVars, runnerVars>>) /\ RealtimeNext
  /\ UNCHANGED desk

\* The calls differ in nothing, and no run of this module checks a temporal property.
Symmetric == Permutations(Calls)
==============================================================================
