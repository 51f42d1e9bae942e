------------------------- MODULE CredentialsProofs -------------------------
(***************************************************************************)
(* A finished setup holds values of one write of one entry, selected by    *)
(* the config the resource referenced: for every number of configs,        *)
(* resources, entries, rotations, edits and restarts.                      *)
(***************************************************************************)
EXTENDS TerraformSetupProofs

\* Whatever copy of a config there is, it has one of the config's own specs.
OwnObject(c, o) == o.exists => o.spec \in SpecsOf[c]

\* What a setup holds at each stage comes from the config it started with.
OwnSetup(s) ==
    /\ s.at \in {"track", "extract"} => s.spec \in SpecsOf[s.ref]
    /\ s.at = "done" =>
          /\ \A v, w \in ValuesOf(s.conf) : v = w
          /\ \A v \in ValuesOf(s.conf) : \E spec \in SpecsOf[s.ref] : spec.key = v[1]

\* The inductive invariant: config, cache, snapshot and setup.
OwnSelections ==
    /\ \A c \in Configs : /\ OwnObject(c, config[c])
                          /\ OwnObject(c, configCache[c])
                          /\ OwnObject(c, pcr[c].seen)
    /\ \A r \in Resources : OwnSetup(setup[r])

-----------------------------------------------------------------------------
\* A configuration holds values of the write it was decoded from and nothing else.
LEMMA OneWrite ==
    ASSUME NEW k, NEW b, NEW v \in ValuesOf(Configuration(Creds(k, b)))
    PROVE  v = <<k, b.version>>
<1> DEFINE creds == Creds(k, b)
           conf == Configuration(creds)
<1>1. DOMAIN creds = b.shape /\ \A f \in b.shape : creds[f] = <<k, b.version>>
  BY DEF Creds
<1>2. \A f \in DOMAIN conf : conf[f] = IF f \in DOMAIN creds THEN creds[f] ELSE Unset
  BY DEF Configuration
<1>3. PICK f \in DOMAIN conf : v = conf[f]
  BY DEF ValuesOf
<1>4. v # Unset
  BY DEF ValuesOf
<1>5. conf[f] = creds[f] /\ f \in b.shape
  BY <1>1, <1>2, <1>3, <1>4
<1> QED
  BY <1>1, <1>3, <1>5

LEMMA AbsentIsOwn == ASSUME NEW c PROVE OwnObject(c, Absent)
  BY DEF OwnObject, Absent

LEMMA IdleIsOwn == OwnSetup(NoSetup)
  BY DEF OwnSetup, NoSetup

LEMMA InitOwns == Init => OwnSelections
<1> SUFFICES ASSUME Init PROVE OwnSelections
  OBVIOUS
<1>1. ASSUME NEW c \in Configs PROVE OwnObject(c, config[c])
  <2>1. CASE config[c] = Absent
    BY <2>1, AbsentIsOwn
  <2>2. CASE c \in Installed
    <3>1. PICK s \in SpecsOf[c] : config[c] = Guarded(s)
      BY <2>2 DEF Init, PCInit
    <3> QED
      BY <3>1 DEF OwnObject, Guarded, Fresh, Absent
  <2> QED
    BY <2>1, <2>2 DEF Init, PCInit
<1>2. \A c \in Configs : configCache[c] = config[c] /\ pcr[c].seen = Absent
  BY DEF Init, PCInit, Idle
<1>3. \A r \in Resources : setup[r] = NoSetup
  BY DEF Init
<1> QED
  BY <1>1, <1>2, <1>3, AbsentIsOwn, IdleIsOwn DEF OwnSelections

\* Steps that touch neither a copy of a config nor a setup.
LEMMA NothingSelected ==
    ASSUME OwnSelections, UNCHANGED <<config, configCache, pcr, setup>>
    PROVE  OwnSelections'
BY DEF OwnSelections, OwnObject, OwnSetup, ValuesOf

LEMMA UserConfigOwns ==
    ASSUME TypeOK, OwnSelections, NEW c \in Configs, UserChangesConfig(c)
    PROVE  OwnSelections'
<1>1. UNCHANGED <<configCache, pcr, setup>>
  BY DEF UserChangesConfig, CreateConfig, EditConfig, RequestDelete, DeleteConfig
<1>2. \A d \in Configs : d # c => config'[d] = config[d]
  BY DEF UserChangesConfig, CreateConfig, EditConfig, RequestDelete, DeleteConfig,
         TypeOK, PCTypeOK
<1>3. OwnObject(c, config'[c])
  <2>1. ASSUME NEW s \in SpecsOf[c], CreateConfig(c, s) PROVE OwnObject(c, config'[c])
    <3>1. config'[c] = Fresh(s)
      BY <2>1 DEF CreateConfig, TypeOK, PCTypeOK
    <3> QED
      BY <3>1 DEF OwnObject, Fresh, Absent
  <2>2. ASSUME NEW s \in SpecsOf[c], EditConfig(c, s) PROVE OwnObject(c, config'[c])
    <3>1. config[c] \in Present
      BY <2>2, ExistingIsPresent DEF EditConfig, TypeOK, PCTypeOK
    <3>2. config'[c] = [config[c] EXCEPT !.spec = s]
      BY <2>2 DEF EditConfig, TypeOK, PCTypeOK
    <3> QED
      BY <3>1, <3>2 DEF OwnObject, Present
  <2>3. CASE RequestDelete(c)
    <3>1. config[c] \in Present
      BY <2>3, ExistingIsPresent DEF RequestDelete, DeleteConfig, TypeOK, PCTypeOK
    <3>2. config'[c] = [config[c] EXCEPT !.deleting = TRUE] \/ config'[c] = Absent
      BY <2>3 DEF RequestDelete, DeleteConfig, TypeOK, PCTypeOK
    <3>3. OwnObject(c, [config[c] EXCEPT !.deleting = TRUE])
      BY <3>1 DEF OwnSelections, OwnObject, Present
    <3> QED
      BY <3>2, <3>3, AbsentIsOwn
  <2> QED
    BY <2>1, <2>2, <2>3 DEF UserChangesConfig
<1> QED
  BY <1>1, <1>2, <1>3 DEF OwnSelections

LEMMA UserOwns ==
    ASSUME TypeOK, OwnSelections, User
    PROVE  OwnSelections'
<1>1. ASSUME NEW r \in Resources, UserChangesManaged(r)
      PROVE  UNCHANGED <<config, configCache, pcr, setup>>
  BY <1>1 DEF UserChangesManaged, CreateManaged, ChangeRef, DeleteGuarded,
              DeleteUnguarded, pcVars
<1>2. ASSUME NEW k \in Keys, NEW kind \in Kinds, NEW shape \in Shapes \cup {{}},
             WriteData(k, kind, shape)
      PROVE  UNCHANGED <<config, configCache, pcr, setup>>
  BY <1>2 DEF WriteData, pcVars
<1> QED
  BY <1>1, <1>2, NothingSelected, UserConfigOwns DEF User

-----------------------------------------------------------------------------
\* The controller writes back what it read, and reads what the cache shows.
LEMMA ReconcilerOwns ==
    ASSUME TypeOK, OwnSelections, NEW c \in Configs, PCStep(c), UNCHANGED setupVars
    PROVE  OwnSelections'
<1> DEFINE Owns == OwnObject(c, config'[c]) /\ OwnObject(c, pcr'[c].seen)
<1>1. UNCHANGED <<configCache, setup>>
  BY DEF PCStep, PCGet, PCList, PCUpdate, PCStatus, setupVars, objects
<1>2. \A d \in Configs : d # c => config'[d] = config[d] /\ pcr'[d] = pcr[d]
  BY DEF PCStep, PCGet, PCList, PCUpdate, PCStatus, TypeOK, PCTypeOK
<1>3. pcr[c].at # "idle" => pcr[c] \in Flights
  BY StartedIsFlight DEF TypeOK, PCTypeOK
<1>4. /\ OwnObject(c, config[c])
      /\ OwnObject(c, configCache[c])
      /\ OwnObject(c, pcr[c].seen)
      /\ OwnObject(c, Idle.seen)
  BY AbsentIsOwn DEF OwnSelections, Idle
<1> SUFFICES Owns
  BY <1>1, <1>2 DEF OwnSelections
<1>5. CASE PCGet(c)
  <2>1. config'[c] = config[c] /\ pcr'[c].seen \in {configCache[c], Idle.seen}
    BY <1>5 DEF PCGet, TypeOK, PCTypeOK
  <2> QED
    BY <1>4, <2>1
<1>6. CASE PCList(c)
  <2>1. config'[c] = config[c] /\ pcr'[c].seen = pcr[c].seen
    BY <1>3, <1>6 DEF PCList, TypeOK, PCTypeOK, Flights
  <2> QED
    BY <1>4, <2>1
<1>7. CASE PCUpdate(c)
  <2>1. OwnObject(c, Written(pcr[c]))
    <3>1. pcr[c].seen \in Present
      BY <1>3, <1>7 DEF PCUpdate, Flights
    <3>2. OwnObject(c, [pcr[c].seen EXCEPT !.finalizer = TRUE])
      BY <1>4, <3>1 DEF OwnObject, Present
    <3> QED
      BY <3>2, AbsentIsOwn DEF Written
  <2>2. config'[c] \in {config[c], Written(pcr[c])}
    BY <1>7 DEF PCUpdate, TypeOK, PCTypeOK
  <2>3. pcr'[c].seen \in {pcr[c].seen, Idle.seen, Written(pcr[c])}
    <3>1. \/ pcr'[c] = [pcr[c] EXCEPT !.at = "status"]
          \/ pcr'[c] = Idle
          \/ pcr'[c] = [pcr[c] EXCEPT !.at = "status", !.seen = Written(pcr[c])]
      BY <1>7 DEF PCUpdate, TypeOK, PCTypeOK
    <3>2. pcr[c] \in Flights
      BY <1>3, <1>7 DEF PCUpdate
    <3> QED
      BY <3>1, <3>2 DEF Flights
  <2> QED
    BY <1>4, <2>1, <2>2, <2>3
<1>8. CASE PCStatus(c)
  <2>1. pcr'[c].seen = Idle.seen
    BY <1>8 DEF PCStatus, TypeOK, PCTypeOK
  <2>2. config'[c] = config[c] \/ config'[c] = [config[c] EXCEPT !.users = pcr[c].users]
    BY <1>8 DEF PCStatus, TypeOK, PCTypeOK
  <2>3. OwnObject(c, [config[c] EXCEPT !.users = pcr[c].users])
    <3>1. config[c] \in Present \/ config[c] = Absent
      BY DEF TypeOK, PCTypeOK, Object
    <3> QED
      BY <1>4, <3>1 DEF OwnObject, Present, Absent
  <2> QED
    BY <1>4, <2>1, <2>2, <2>3
<1> QED
  BY <1>5, <1>6, <1>7, <1>8 DEF PCStep

\* The steps of a setup hand one spec on, and turn it into values of one entry.
LEMMA SetupOwns ==
    ASSUME TypeOK, OwnSelections, NEW r \in Resources, SetupStep(r)
    PROVE  OwnSelections'
<1>1. UNCHANGED <<config, configCache, pcr>>
  BY DEF SetupStep, Begin, GetConfig, Track, Extract, FinishFailed, Finish,
         FinishDelete, pcVars
<1>2. \A q \in Resources : q # r => setup'[q] = setup[q]
  BY DEF SetupStep, Begin, GetConfig, Track, Extract, FinishFailed, Finish,
         FinishDelete, Goto, EndSetup, TypeOK
<1>3. setup[r] \in Setups /\ OwnSetup(setup[r])
  BY DEF TypeOK, OwnSelections
<1> SUFFICES OwnSetup(setup'[r])
  BY <1>1, <1>2 DEF OwnSelections
<1>4. CASE Begin(r)
  <2>1. setup'[r].at \in {"failed", "getConfig"}
    BY <1>3, <1>4 DEF Begin, TypeOK, Setups
  <2> QED
    BY <2>1 DEF OwnSetup
<1>5. CASE GetConfig(r)
  <2>1. setup[r].ref \in Configs
    BY <1>5 DEF GetConfig, TypeOK
  <2>2. OwnObject(setup[r].ref, configCache[setup[r].ref])
    BY <2>1 DEF OwnSelections
  <2>3. /\ setup'[r].ref = setup[r].ref
        /\ setup'[r].at \in {"track", "failed"}
        /\ setup'[r].at = "track" =>
              /\ configCache[setup[r].ref].exists
              /\ setup'[r].spec = configCache[setup[r].ref].spec
    BY <1>3, <1>5 DEF GetConfig, TypeOK, Setups
  <2> QED
    BY <2>2, <2>3 DEF OwnSetup, OwnObject
<1>6. CASE Track(r)
  <2>1. /\ setup'[r].ref = setup[r].ref
        /\ setup'[r].spec = setup[r].spec
        /\ setup'[r].at \in {"extract", "failed"}
    BY <1>3, <1>6 DEF Track, Goto, TypeOK, Setups
  <2>2. setup[r].at = "track"
    BY <1>6 DEF Track
  <2> QED
    BY <1>3, <2>1, <2>2 DEF OwnSetup
<1>7. CASE Extract(r)
  <2> DEFINE s == setup[r].spec
             conf == Configuration(Creds(s.key, data[s.key]))
  <2>1. s \in SpecsOf[setup[r].ref]
    BY <1>3, <1>7 DEF Extract, OwnSetup
  <2>2. /\ setup'[r].ref = setup[r].ref
        /\ setup'[r].at \in {"done", "failed"}
        /\ setup'[r].at = "done" => setup'[r].conf = conf
    BY <1>3, <1>7 DEF Extract, Selected, Goto, TypeOK, Setups
  <2>3. \A v \in ValuesOf(conf) : v = <<s.key, data[s.key].version>>
    BY OneWrite
  <2>4. \A v \in ValuesOf(conf) : v[1] = s.key
    BY <2>3
  <2> QED
    BY <2>1, <2>2, <2>3, <2>4 DEF OwnSetup
<1>8. CASE FinishFailed(r) \/ Finish(r) \/ FinishDelete(r)
  <2>1. setup'[r] = NoSetup
    BY <1>8 DEF FinishFailed, Finish, FinishDelete, EndSetup, TypeOK
  <2> QED
    BY <2>1, IdleIsOwn
<1> QED
  BY <1>4, <1>5, <1>6, <1>7, <1>8 DEF SetupStep

LEMMA NextOwns ==
    ASSUME TypeOK, OwnSelections, [Next]_vars
    PROVE  OwnSelections'
<1>1. CASE User
  BY <1>1, UserOwns
<1>2. ASSUME NEW c \in Configs, PCStep(c), UNCHANGED setupVars PROVE OwnSelections'
  BY <1>2, ReconcilerOwns
<1>3. ASSUME NEW c \in Configs, DeliverConfig(c), UNCHANGED setupVars PROVE OwnSelections'
  <2>1. \A d \in Configs : configCache'[d] \in {config[d], configCache[d]}
    BY <1>3 DEF DeliverConfig, TypeOK, PCTypeOK
  <2>2. UNCHANGED <<config, pcr, setup>>
    BY <1>3 DEF DeliverConfig, setupVars, objects
  <2> QED
    BY <2>1, <2>2 DEF OwnSelections
<1>4. ASSUME NEW r \in Resources, DeliverUsage(r), UNCHANGED setupVars PROVE OwnSelections'
  BY <1>4, NothingSelected DEF DeliverUsage, setupVars, objects
<1>5. ASSUME NEW r \in Resources, CollectUsage(r) PROVE OwnSelections'
  BY <1>5, NothingSelected DEF CollectUsage, setupVars, objects
<1>6. ASSUME NEW r \in Resources, SetupStep(r) PROVE OwnSelections'
  BY <1>6, SetupOwns
<1>7. ASSUME NEW c \in Configs, SyncPeriod(c) PROVE OwnSelections'
  BY <1>7, NothingSelected DEF SyncPeriod, Resync, objects
<1>8. CASE Crash
  <2>1. \A c \in Configs : config'[c] = config[c] /\ configCache'[c] = config[c]
                           /\ pcr'[c].seen = Absent
    BY <1>8 DEF Crash, Idle
  <2>2. \A r \in Resources : setup'[r] = NoSetup
    BY <1>8 DEF Crash
  <2> QED
    BY <2>1, <2>2, AbsentIsOwn, IdleIsOwn DEF OwnSelections
<1>9. CASE UNCHANGED vars
  BY <1>9, NothingSelected DEF vars, pcVars, setupVars, objects
<1> QED
  BY <1>1, <1>2, <1>3, <1>4, <1>5, <1>6, <1>7, <1>8, <1>9 DEF Next, Controller

(* The credentials a setup hands to Terraform come from one write of one   *)
(* entry that the referenced config selects (rediscloud.go:57-74).         *)
THEOREM CredentialsSelected == Spec => []CredentialsOfReferencedConfig
<1>1. OwnSelections => CredentialsOfReferencedConfig
  BY DEF OwnSelections, OwnSetup, CredentialsOfReferencedConfig
<1> QED
  BY <1>1, InitTypes, NextTypes, InitOwns, NextOwns, PTL DEF Spec

=============================================================================
