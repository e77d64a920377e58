---------------------------- MODULE ConfigProofs ----------------------------
(***************************************************************************)
(* Proofs about Config, for any number of releases and any secrets.        *)
(*                                                                         *)
(* DefaultNeverFrozen is about the file, but what a PUT writes comes from  *)
(* a page that may be older than the process: the invariant bounds the     *)
(* defaults a draft can hold (DraftIsNoNewer). SavedConfigStarts needs     *)
(* that what was accepted is still what is in the file, and is accepted    *)
(* again under the same override (SavedIsValid). ReloadRereadsDotenv and   *)
(* OperatorVarsKept are inductive as they stand.                           *)
(***************************************************************************)
EXTENDS Config, TLAPS

USE ContentsAreDistinct
USE DEF Default

\* Settings, releases and flags; the environments need no type here.
TypeOK ==
  /\ file \in Settings \cup {Torn}
  /\ draft \in Settings \cup {None}
  /\ up \in BOOLEAN
  /\ reloading \in BOOLEAN
  /\ installed \in 1 .. MaxRelease
  /\ release \in 1 .. installed
  /\ schemaOf \in 1 .. release

\* The page holds no default of a later release than that of the process.
DraftIsNoNewer ==
  draft # None => \A r \in 1 .. MaxRelease : draft.prompt = Default(r) => r <= release

\* A file the editor accepted is whole, and valid under the override it was
\* accepted under.
SavedIsValid ==
  saved # NotSaved =>
    /\ file # Torn
    /\ ParseConfig(file, saved.override)

\* The file, and what is known of it.
IInv == TypeOK /\ DefaultNeverFrozen /\ DraftIsNoNewer /\ SavedIsValid

\* The environment of the process.
EnvInv == ReloadRereadsDotenv /\ OperatorVarsKept

-----------------------------------------------------------------------------
(* The operators of config.py and the router.                              *)

\* An override or a dropped prompt makes settings of settings.
LEMMA SettingsClosed ==
  ASSUME NEW s \in Settings, release \in 1 .. MaxRelease
  PROVE  /\ DropDefaults(s) \in Settings
         /\ DropDefaults(s).backend = s.backend
         /\ DropDefaults(s).legacy = s.legacy
         /\ DropDefaults(s).prompt \notin {Blank, Default(release)}
         /\ DropDefaults(s).prompt \in {Absent, s.prompt}
BY DEF DropDefaults, Settings, Prompts

\* Leaving a default prompt out of the file does not change whether it is valid.
LEMMA DropKeepsValid ==
  ASSUME NEW s \in Settings, NEW b, ParseConfig(s, b), release \in 1 .. MaxRelease
  PROVE  ParseConfig(DropDefaults(s), b)
BY SettingsClosed DEF ParseConfig, EnvOverrides, Valid, DropDefaults, Settings

-----------------------------------------------------------------------------

\* A start, a reload and what the operator does outside: the file stays.
LEMMA ProcessStep ==
  ASSUME IInv, Start \/ Crash \/ DotenvEdited \/ Upgraded \/ ReloadAsked \/ Exec
  PROVE  IInv'
<1> USE DEF IInv
<1>1. UNCHANGED <<file, draft, schemaOf, saved>>
  BY DEF Start, Crash, DotenvEdited, Upgraded, ReloadAsked, Exec, Runs, page
<1>2. /\ up' \in BOOLEAN /\ reloading' \in BOOLEAN
      /\ installed' \in 1 .. MaxRelease /\ release' \in 1 .. installed' /\ release <= release'
  <2>1. CASE Start \/ Exec
    <3>1. up' \in BOOLEAN /\ reloading' \in BOOLEAN
      BY <2>1 DEF Start, Exec, Runs, LoadConfig
    <3> QED
      BY <2>1, <3>1 DEF Start, Exec, Runs, TypeOK
  <2>2. CASE Crash \/ DotenvEdited \/ Upgraded \/ ReloadAsked
    <3>1. up' \in BOOLEAN /\ reloading' \in BOOLEAN
      BY <2>2 DEF Crash, DotenvEdited, Upgraded, ReloadAsked, TypeOK
    <3> QED
      BY <2>2, <3>1 DEF Crash, DotenvEdited, Upgraded, ReloadAsked, TypeOK
  <2> QED
    BY <2>1, <2>2
<1>3. TypeOK'
  BY <1>1, <1>2 DEF TypeOK
<1>4. DefaultNeverFrozen' /\ DraftIsNoNewer'
  BY <1>1, <1>2 DEF DefaultNeverFrozen, DraftIsNoNewer, TypeOK
<1>5. SavedIsValid'
  BY <1>1 DEF SavedIsValid, ParseConfig
<1> QED
  BY <1>3, <1>4, <1>5

\* The page and its router.
LEMMA PageStep ==
  ASSUME IInv, ReadConfig \/ FieldEdited \/ WriteConfig \/ WriteFails
  PROVE  IInv'
<1> USE DEF IInv
<1>1. CASE ReadConfig
  BY <1>1 DEF ReadConfig, TypeOK, DefaultNeverFrozen, DraftIsNoNewer, SavedIsValid, ParseConfig
<1>2. CASE FieldEdited
  <2>0. \/ \E p \in {Blank, Custom, Default(schemaOf)} : draft' = [draft EXCEPT !.prompt = p]
        \/ \E b \in {"mock", "real", "other"} : draft' = [draft EXCEPT !.backend = b]
        \/ \E set \in BOOLEAN : draft' = [draft EXCEPT !.endpoint = set]
    <3>1. PICK field \in Editable :
            \E value \in Choices[field] : draft' = [draft EXCEPT ![field] = value]
      BY <1>2 DEF FieldEdited
    <3>2. CASE field = "prompt"
      BY <3>1, <3>2 DEF Choices
    <3>3. CASE field = "backend"
      BY <3>1, <3>3 DEF Choices
    <3>4. CASE field = "endpoint"
      BY <3>1, <3>4 DEF Choices
    <3> QED
      BY <3>2, <3>3, <3>4, FieldsOfThePage
  <2>u. draft # None /\ UNCHANGED <<file, up, release, installed, reloading, schemaOf, saved>>
    BY <1>2 DEF FieldEdited
  <2>1. TypeOK'
    BY <2>u, <2>0 DEF TypeOK, Settings, Prompts
  <2>2. DraftIsNoNewer'
    BY <2>u, <2>0 DEF TypeOK, Settings, DraftIsNoNewer
  <2>3. DefaultNeverFrozen' /\ SavedIsValid'
    BY <2>u DEF DefaultNeverFrozen, SavedIsValid, ParseConfig
  <2> QED
    BY <2>1, <2>2, <2>3
<1>3. CASE WriteConfig
  <2> USE <1>3 DEF WriteConfig, page
  <2>0. CASE ~ParseConfig(draft, env["SIMULATOR_BACKEND"])
    BY <2>0 DEF TypeOK, DefaultNeverFrozen, DraftIsNoNewer, SavedIsValid, ParseConfig
  <2>1. CASE ParseConfig(draft, env["SIMULATOR_BACKEND"])
    <3>0. /\ draft \in Settings /\ release \in 1 .. MaxRelease
          /\ file' = DropDefaults(draft)
          /\ saved' = [override |-> env["SIMULATOR_BACKEND"], release |-> release]
      BY <2>1 DEF TypeOK, Writes
    <3>1. TypeOK'
      BY <3>0, SettingsClosed DEF TypeOK
    <3>2. DefaultNeverFrozen' /\ DraftIsNoNewer'
      BY <3>0, SettingsClosed DEF DefaultNeverFrozen, DraftIsNoNewer, TypeOK
    <3>3. SavedIsValid'
      BY <2>1, <3>0, SettingsClosed, DropKeepsValid DEF SavedIsValid, ParseConfig, EnvOverrides
    <3> QED
      BY <3>1, <3>2, <3>3
  <2> QED
    BY <2>0, <2>1
<1>4. CASE WriteFails
  BY <1>4 DEF WriteFails, page, TypeOK, DefaultNeverFrozen, DraftIsNoNewer, SavedIsValid
<1> QED
  BY <1>1, <1>2, <1>3, <1>4

\* The inductive invariant holds throughout.
THEOREM Inductive == Spec => []IInv
<1>1. Init => IInv
  <2> SUFFICES ASSUME Init PROVE IInv
    OBVIOUS
  <2>1. file \in Settings /\ file.prompt \in {Absent, Custom}
    BY DEF Init, Settings, Prompts
  <2>2. TypeOK
    <3>1. up \in BOOLEAN /\ reloading \in BOOLEAN
      BY DEF Init
    <3> QED
      BY <2>1, <3>1 DEF Init, TypeOK
  <2>3. DefaultNeverFrozen /\ DraftIsNoNewer /\ SavedIsValid
    BY <2>1 DEF Init, DefaultNeverFrozen, DraftIsNoNewer, SavedIsValid
  <2> QED
    BY <2>2, <2>3 DEF IInv
<1>2. IInv /\ [Next]_vars => IInv'
  <2> SUFFICES ASSUME IInv, [Next]_vars PROVE IInv'
    OBVIOUS
  <2>1. CASE Next
    BY <2>1, ProcessStep, PageStep DEF Next
  <2>2. CASE UNCHANGED vars
    BY <2>2 DEF vars, page, IInv, TypeOK, DefaultNeverFrozen, DraftIsNoNewer, SavedIsValid, ParseConfig
  <2> QED
    BY <2>1, <2>2
<1> QED
  BY <1>1, <1>2, PTL DEF Spec

\* The file holds neither a blank prompt nor the default of the running release,
\* across edits, reloads, crashes and upgrades.
THEOREM DefaultsStayOut == Spec => []DefaultNeverFrozen
<1>1. IInv => DefaultNeverFrozen
  BY DEF IInv
<1> QED
  BY <1>1, Inductive, PTL

\* A file that a PUT accepted starts the agent again, under the same override and
\* by the same release, unless the real simulator's endpoint is missing.
THEOREM SavedStarts == Spec => SavedConfigStarts
<1> DEFINE b == env'["SIMULATOR_BACKEND"]
<1>1. ASSUME IInv, Exec \/ Start, saved # NotSaved, saved.override = b, ~EndpointMissing(b)
      PROVE  up'
  <2>1. file # Torn /\ ParseConfig(file, b)
    BY <1>1 DEF IInv, SavedIsValid
  <2>2. up' = (LoadConfig(b) /\ BuildSimulator(b))
    BY <1>1 DEF Exec, Start, Runs
  <2> QED
    BY <1>1, <2>1, <2>2 DEF LoadConfig, EndpointMissing
<1>2. IInv /\ [Next]_vars =>
        [(/\ Exec \/ Start
          /\ saved # NotSaved /\ saved.override = b /\ saved.release = release'
          /\ ~EndpointMissing(b))
         => up']_vars
  BY <1>1
<1> QED
  BY <1>2, Inductive, PTL DEF Spec, SavedConfigStarts

-----------------------------------------------------------------------------
(* The environment.                                                        *)

\* A start takes what .env sets where the operator set nothing.
LEMMA StartReads ==
  ASSUME Start PROVE EnvInv'
<1>1. /\ env' = LoadDotenv(outer') /\ dotenv' = dotenv
  BY DEF Start, Runs
<1> QED
  BY <1>1 DEF LoadDotenv, EnvInv, ReloadRereadsDotenv, OperatorVarsKept

\* A reload takes out what the file names and reads it again; what no reload has
\* taken out is still what the operator set.
LEMMA ExecRereads ==
  ASSUME EnvInv, Exec PROVE EnvInv'
<1>1. PICK names \in NamedLocally :
        Runs(ForgetDotenvVars(names)) /\ forgotten' = forgotten \cup names
  BY DEF Exec
<1>2. /\ up /\ sameFile' = sameFile /\ outer' = outer /\ dotenv' = dotenv
      /\ env' = LoadDotenv(ForgetDotenvVars(names))
  BY <1>1 DEF Exec, Runs
<1>3. ReloadRereadsDotenv'
  BY <1>2 DEF NamedLocally, LoadDotenv, ForgetDotenvVars, ReloadRereadsDotenv
<1>4. OperatorVarsKept'
  BY <1>1, <1>2 DEF LoadDotenv, ForgetDotenvVars, EnvInv, OperatorVarsKept
<1> QED
  BY <1>3, <1>4 DEF EnvInv

\* Whatever else happens, no process gets another environment.
LEMMA EnvElse ==
  ASSUME EnvInv, Next, ~Start, ~Exec PROVE EnvInv'
<1>1. UNCHANGED <<env, sameFile, outer, forgotten>> /\ (up' => up)
  BY DEF Next, Crash, DotenvEdited, Upgraded, ReadConfig, FieldEdited, WriteConfig,
         WriteFails, ReloadAsked, launch
<1>2. \A n \in Names : n \notin edited' => n \notin edited /\ dotenv'[n] = dotenv[n]
  <2>1. CASE DotenvEdited
    BY <2>1 DEF DotenvEdited
  <2>2. CASE ~DotenvEdited
    BY <2>2 DEF Next, Crash, Upgraded, ReadConfig, FieldEdited, WriteConfig, WriteFails,
                ReloadAsked
  <2> QED
    BY <2>1, <2>2
<1> QED
  BY <1>1, <1>2 DEF EnvInv, ReloadRereadsDotenv, OperatorVarsKept

\* The environment of the process is as described throughout.
THEOREM EnvInductive == Spec => []EnvInv
<1>1. Init => EnvInv
  BY DEF Init, EnvInv, ReloadRereadsDotenv, OperatorVarsKept
<1>2. EnvInv /\ [Next]_vars => EnvInv'
  <2> SUFFICES ASSUME EnvInv, [Next]_vars PROVE EnvInv'
    OBVIOUS
  <2>1. CASE Next
    BY <2>1, StartReads, ExecRereads, EnvElse
  <2>2. CASE UNCHANGED vars
    BY <2>2 DEF vars, launch, EnvInv, ReloadRereadsDotenv, OperatorVarsKept
  <2> QED
    BY <2>1, <2>2
<1> QED
  BY <1>1, <1>2, PTL DEF Spec

\* What .env alone sets is in use as .env had it at the last start or reload.
THEOREM ReloadRereads == Spec => []ReloadRereadsDotenv
<1>1. EnvInv => ReloadRereadsDotenv
  BY DEF EnvInv
<1> QED
  BY <1>1, EnvInductive, PTL

\* What the operator set is kept until a reload finds its name in a .env.
THEOREM OperatorKept == Spec => []OperatorVarsKept
<1>1. EnvInv => OperatorVarsKept
  BY DEF EnvInv
<1> QED
  BY <1>1, EnvInductive, PTL
=============================================================================
