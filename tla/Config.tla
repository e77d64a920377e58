------------------------------- MODULE Config -------------------------------
(***************************************************************************)
(* The configuration file through edits, reloads, crashes and upgrades:    *)
(* the Config page and /api/config (voice_agent/api/config_router.py),     *)
(* what a start makes of the file and of the environment                   *)
(* (voice_agent/config.py, main.py _run, real.py build_simulator), and the *)
(* exec of a reload, which hands the environment of the old process to the *)
(* new one.                                                                *)
(*                                                                         *)
(* Of the many settings the model keeps those that the code treats in ways *)
(* of their own: a prompt, the simulator backend, which an environment     *)
(* variable overrides, the simulator's ports and frame rate, which only    *)
(* the start looks at, and the obsolete simulator.real keys. Of the        *)
(* environment it keeps that variable and one secret read by name.         *)
(*                                                                         *)
(* Two lookups find a .env: load_dotenv() goes upward from main.py, the    *)
(* reload's find_dotenv(usecwd=True) from the working directory. They find *)
(* one file when the agent is launched from its checkout, and may find two *)
(* otherwise; of the second only the names matter.                         *)
(***************************************************************************)
EXTENDS Naturals

CONSTANTS
  Secrets,     \* values of the API key
  Overrides,   \* values of SIMULATOR_BACKEND, "" the empty one
  Editable,    \* bound: the settings changed on the page
  Launches,    \* bound: which values sameFile takes
  Custom,      \* a prompt of the operator's own
  Absent,      \* no prompt in the file
  Blank,       \* an empty one
  None,        \* not set
  Torn,        \* a file that was not written to its end
  NotSaved,    \* a file that the editor did not write
  MaxRelease   \* bound: upgrades of the installed code

ASSUME NoneIsNoValue == None \notin Secrets \cup Overrides

ASSUME FieldsOfThePage == Editable \subseteq {"prompt", "backend", "endpoint"}

VARIABLES
  file,      \* config.yaml: the settings in it, or Torn
  dotenv,    \* the .env file that load_dotenv finds
  sameFile,  \* the reload looks for names in that file too
  outer,     \* the environment the operator started the agent from
  env,       \* os.environ of the process
  up,        \* the process is serving
  release,   \* the code it runs
  installed, \* the code on disk
  reloading, \* a call_later(_exec_self) is due
  draft,     \* what the open Config page holds, None if it is not open
  schemaOf,  \* the release whose schema that page shows
  saved,     \* override and release under which the file was accepted (history)
  edited,    \* names changed in .env since the process read it (history)
  forgotten  \* names that reloads since the start have taken out (history)

launch == <<sameFile, outer, forgotten>>
page == <<draft, schemaOf>>

vars == <<file, dotenv, env, up, release, installed, reloading, saved, edited, launch, page>>

Names == {"SIMULATOR_BACKEND", "API_KEY"}

Environments ==
  [SIMULATOR_BACKEND : Overrides \cup {None}, API_KEY : Secrets \cup {None}]

\* PROMPT_DEFAULTS of a release.
Default(r) == r

Prompts == {Absent, Blank, Custom} \cup {Default(r) : r \in 1 .. MaxRelease}

\* "other" is a backend that the schema does not know; endpoint says that the
\* ports and the frame rate of simulator.real are set.
Settings ==
  [prompt : Prompts, backend : {"mock", "real", "other"}, legacy : BOOLEAN, endpoint : BOOLEAN]

\* A prompt of the operator's own is no default, and a torn file is no settings.
ASSUME ContentsAreDistinct ==
  /\ MaxRelease \in Nat \ {0}
  /\ Blank \notin {Absent, Custom}
  /\ {Absent, Blank, Custom} \cap {Default(r) : r \in 1 .. MaxRelease} = {}
  /\ Torn \notin Settings

-----------------------------------------------------------------------------
(* config.py.                                                              *)

\* _apply_env_overrides; an empty variable does not override.
EnvOverrides(settings, b) ==
  IF b \in {None, ""} THEN settings ELSE [settings EXCEPT !.backend = b]

\* AppConfig: a known backend, and obsolete keys only where they do not matter.
Valid(settings) ==
  /\ settings.backend \in {"mock", "real"}
  /\ ~(settings.legacy /\ settings.backend = "real")

ParseConfig(settings, b) == Valid(EnvOverrides(settings, b))

\* load_config: a torn file is no mapping, or one with required blocks missing.
LoadConfig(b) == file # Torn /\ ParseConfig(file, b)

\* real.build_simulator: ports and frame rate must be set, which AppConfig does
\* not ask for; the mock needs nothing.
BuildSimulator(b) ==
  LET settings == EnvOverrides(file, b) IN settings.backend = "real" => settings.endpoint

\* Variant, not in Next: .env overrides what is set already.
LoadDotenvOverriding(e) == [n \in Names |-> IF dotenv[n] # None THEN dotenv[n] ELSE e[n]]

\* load_dotenv: what is set already, empty or not, stays.
LoadDotenv(e) == [n \in Names |-> IF e[n] = None THEN dotenv[n] ELSE e[n]]

\* main._run from environment e: it serves, or ends with the error of
\* load_config or of build_shared_backends.
Runs(e) ==
  /\ env' = LoadDotenv(e)
  /\ LET b == env'["SIMULATOR_BACKEND"] IN up' = (LoadConfig(b) /\ BuildSimulator(b))
  /\ release' = installed
  /\ reloading' = FALSE
  /\ edited' = {}
  /\ UNCHANGED <<file, dotenv, installed, saved, page>>

Init ==
  /\ file \in [prompt : {Absent, Custom}, backend : {"mock", "real"},
              legacy : BOOLEAN, endpoint : BOOLEAN]
  /\ dotenv \in Environments
  /\ sameFile \in Launches
  /\ outer \in Environments
  /\ env = outer
  /\ up = FALSE
  /\ release = 1 /\ installed = 1
  /\ reloading = FALSE
  /\ draft = None /\ schemaOf = 1
  /\ saved = NotSaved
  /\ edited = {} /\ forgotten = {}

\* The operator starts the agent, in an environment and a directory of the day.
Start ==
  /\ ~up
  /\ outer' \in Environments
  /\ sameFile' \in Launches
  /\ forgotten' = {}
  /\ Runs(outer')

\* The process dies; with it a reload that was due.
Crash ==
  /\ up
  /\ up' = FALSE
  /\ reloading' = FALSE
  /\ UNCHANGED <<file, dotenv, env, release, installed, saved, edited, launch, page>>

\* The operator edits .env, or installs a newer release.
DotenvEdited ==
  /\ \E n \in Names, e \in Environments :
       /\ e[n] # dotenv[n]
       /\ dotenv' = [dotenv EXCEPT ![n] = e[n]]
       /\ edited' = edited \cup {n}
  /\ UNCHANGED <<file, env, up, release, installed, reloading, saved, launch, page>>

Upgraded ==
  /\ installed < MaxRelease
  /\ installed' = installed + 1
  /\ UNCHANGED <<file, dotenv, env, up, release, reloading, saved, edited, launch, page>>

-----------------------------------------------------------------------------
(* The Config page and its router.                                         *)

\* GET /api/config and its schema: the file as it is, no overrides; a file that
\* cannot be read is a 500.
ReadConfig ==
  /\ up
  /\ file # Torn
  /\ draft' = file
  /\ schemaOf' = release
  /\ UNCHANGED <<file, dotenv, env, up, release, installed, reloading, saved, edited, launch>>

\* What a PUT may hold: the page knows the default prompt of its schema, and a
\* backend that the schema does not list can be sent without the page.
Choices ==
  [prompt |-> {Blank, Custom, Default(schemaOf)},
   backend |-> {"mock", "real", "other"}, endpoint |-> BOOLEAN]

\* A field of the page is changed.
FieldEdited ==
  /\ draft # None
  /\ \E field \in Editable :
       \E value \in Choices[field] : draft' = [draft EXCEPT ![field] = value]
  /\ UNCHANGED <<file, dotenv, env, up, release, installed, reloading, schemaOf,
                 saved, edited, launch>>

\* Variant, not in Next: the schema defaults are written as they come.
KeepsPrompts(settings) == settings

\* An unmodified or blank prompt is left out of the file.
DropDefaults(settings) ==
  IF settings.prompt \in {Blank, Default(release)}
  THEN [settings EXCEPT !.prompt = Absent] ELSE settings

\* The file is written and, for the history, under what it was accepted.
Writes ==
  /\ file' = DropDefaults(draft)
  /\ saved' = [override |-> env["SIMULATOR_BACKEND"], release |-> release]

\* Variant, not in Next: whatever is submitted is written.
WriteUnchecked ==
  /\ up /\ draft # None
  /\ Writes
  /\ UNCHANGED <<dotenv, env, up, release, installed, reloading, edited, launch, page>>

\* PUT /api/config: checked with the overrides of this process, written without.
WriteConfig ==
  /\ up /\ draft # None
  /\ IF ParseConfig(draft, env["SIMULATOR_BACKEND"]) THEN Writes ELSE UNCHANGED <<file, saved>>
  /\ UNCHANGED <<dotenv, env, up, release, installed, reloading, edited, launch, page>>

\* The file is opened for writing, and emptied, before the text is there: an
\* OSError, or the end of the process, leaves part of it.
WriteFails ==
  /\ up /\ draft # None
  /\ ParseConfig(draft, env["SIMULATOR_BACKEND"])
  /\ file' = Torn
  /\ saved' = NotSaved
  /\ up' \in BOOLEAN
  /\ reloading' = (reloading /\ up')
  /\ UNCHANGED <<dotenv, env, release, installed, edited, launch, page>>

\* POST /api/config/reload: the exec follows a second later.
ReloadAsked ==
  /\ up
  /\ reloading' = TRUE
  /\ UNCHANGED <<file, dotenv, env, up, release, installed, saved, edited, launch, page>>

\* Variant, not in Next: the environment is handed on as it is.
KeepDotenvVars(names) == env

\* _forget_dotenv_vars: the names are taken out.
ForgetDotenvVars(names) == [n \in Names |-> IF n \in names THEN None ELSE env[n]]

\* find_dotenv(usecwd=True): what the file names that load_dotenv reads, or
\* whatever another one does, none if there is no other.
NamedLocally == IF sameFile THEN {{n \in Names : dotenv[n] # None}} ELSE SUBSET Names

\* _exec_self: the new process inherits the rest.
Exec ==
  /\ up /\ reloading
  /\ \E names \in NamedLocally :
       /\ Runs(ForgetDotenvVars(names))
       /\ forgotten' = forgotten \cup names
  /\ UNCHANGED <<sameFile, outer>>

Next ==
  \/ Start \/ Crash \/ DotenvEdited \/ Upgraded
  \/ ReadConfig \/ FieldEdited \/ WriteConfig \/ WriteFails
  \/ ReloadAsked \/ Exec

Spec == Init /\ [][Next]_vars

-----------------------------------------------------------------------------
(* Properties.                                                             *)

\* What .env alone sets, the agent has as .env had it when it was last started or
\* reloaded, however often the line was changed between and whatever the processes
\* before read or inherited: a rotated key is in use after the next reload, given
\* that both lookups find one file (_forget_dotenv_vars, load_dotenv).
ReloadRereadsDotenv ==
  up /\ sameFile =>
    \A n \in Names :
      outer[n] = None /\ dotenv[n] # None /\ n \notin edited => env[n] = dotenv[n]

\* What the operator set stays as it was set, through any number of edits and
\* reloads, as long as no reload has found its name in a .env: it is neither
\* replaced nor lost (load_dotenv, _forget_dotenv_vars).
OperatorVarsKept ==
  up => \A n \in Names : outer[n] # None /\ n \notin forgotten => env[n] = outer[n]

\* What the operator set takes precedence over .env. The code says so of every
\* start (main.py load_dotenv) and of the reload (_forget_dotenv_vars).
OperatorWins ==
  up /\ sameFile => \A n \in Names : outer[n] # None => env[n] = outer[n]

\* A reload re-reads .env from wherever the agent was launched
\* (_forget_dotenv_vars).
RereadsAnywhere ==
  up => \A n \in Names :
          outer[n] = None /\ dotenv[n] # None /\ n \notin edited => env[n] = dotenv[n]

\* The file, under this override, wants the real simulator and does not say where
\* it is.
EndpointMissing(b) == file # Torn /\ ~BuildSimulator(b)

\* A file the editor accepted starts the agent again, after a crash or by a
\* reload, under the same override and by the same release, unless it asks for
\* the real simulator without its ports: nothing else that a start checks is
\* left unchecked by PUT (write_config, load_config, build_simulator).
SavedConfigStarts ==
  [][LET b == env'["SIMULATOR_BACKEND"] IN
       /\ Exec \/ Start
       /\ saved # NotSaved /\ saved.override = b /\ saved.release = release'
       /\ ~EndpointMissing(b)
       => up']_vars

\* No setting of the simulator that load_config accepts keeps the agent from
\* starting (build_simulator).
MisconfiguredStarts ==
  [][(Exec \/ Start) /\ LoadConfig(env'["SIMULATOR_BACKEND"]) => up']_vars

\* The file never holds the default prompt of the release that wrote it, nor a
\* blank one, so that a later release's default takes its place; only a page
\* left open over an upgrade can freeze an older default (write_config).
DefaultNeverFrozen ==
  file # Torn => /\ file.prompt # Blank
                   /\ \A r \in 1 .. MaxRelease : file.prompt = Default(r) => r < release

=============================================================================
