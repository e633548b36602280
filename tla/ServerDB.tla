------------------------------ MODULE ServerDB ------------------------------
(***************************************************************************)
(* The database set of pkg/db/db.go: NewDB opens one orm.DB for each       *)
(* configured database and registers it under its name, GetDB hands out a  *)
(* DB for one name that shares the map of all of them, and Close closes    *)
(* every registered database, whoever calls it.                            *)
(*                                                                         *)
(* The handle orm.Open returns for config.Databases[i] is i.  A setting of *)
(* a database is a number, 0 when it is unset (false, zero duration).      *)
(***************************************************************************)
EXTENDS Integers, Sequences, FiniteSets, SequencesExt

CONSTANTS
    Names,         \* database names
    DefaultName,   \* "__default__"
    Entries,       \* the database configurations a Config is made of
    MaxDatabases,  \* bound: databases of one Config
    Goroutines,    \* the callers of GetDB
    NIL

Handles == 1..MaxDatabases

\* The fields of a database's configuration that become options, in the
\* order NewDB looks at them, and the option each one is passed to.
OptionOf ==
    << [field |-> "WithoutPing",     option |-> "WithoutPing"],
       [field |-> "IgnoreNotFound",  option |-> "IgnoreNotFound"],
       [field |-> "MaxRows",         option |-> "MaxRows"],
       [field |-> "MaxIdleCount",    option |-> "MaxIdleCount"],
       [field |-> "MaxOpenConns",    option |-> "MaxOpenConns"],
       [field |-> "ConnMaxLifetime", option |-> "ConnMaxLifetime"],
       [field |-> "ConnMaxIdletime", option |-> "ConnMaxLifetime"] >>

Fields == {OptionOf[i].field : i \in DOMAIN OptionOf}

\* The settings of an open database, and the field that configures each.
FieldOf ==
    [WithoutPing |-> "WithoutPing", IgnoreNotFound |-> "IgnoreNotFound",
     MaxRows |-> "MaxRows", MaxIdleCount |-> "MaxIdleCount",
     MaxOpenConns |-> "MaxOpenConns", ConnMaxLifetime |-> "ConnMaxLifetime",
     ConnMaxIdleTime |-> "ConnMaxIdletime"]

Settings == DOMAIN FieldOf

\* dsn and driver: whether the string is non-empty.
ConfigEntry == [name : Names, dsn : BOOLEAN, driver : BOOLEAN, set : [Fields -> Nat]]

\* A *serverDB: its name, the orm.DB it embeds and the map it shares.
ServerDBValue ==
    [name : Names \cup {""}, db : Handles \cup {NIL},
     dbs : UNION {[ns -> Handles] : ns \in SUBSET Names}]

ASSUME /\ Entries \subseteq ConfigEntry
       /\ DefaultName \in Names
       /\ MaxDatabases \in Nat

VARIABLES
    config,    \* the Config NewDB was called with, NIL before the call
    pool,      \* pool[h]: whether handle h is unopened, open or closed
    settings,  \* settings[h]: what the options made of handle h
    server,    \* the DB NewDB returned, NIL before and when it failed
    held,      \* held[g]: the DB goroutine g got from GetDB
    ctx,       \* ret.ctx: "none" before NewDB, then "live" or "cancelled"
    panicked   \* the name GetDB panicked on, NIL while no call has

vars == <<config, pool, settings, server, held, ctx, panicked>>

Unset == [s \in Settings |-> 0]

TypeOK ==
    /\ config \in {NIL} \cup BoundedSeq(Entries, MaxDatabases)
    /\ pool \in [Handles -> {"unopened", "open", "closed"}]
    /\ settings \in [Handles -> [Settings -> Nat]]
    /\ server \in {NIL} \cup ServerDBValue
    /\ held \in [Goroutines -> {NIL} \cup ServerDBValue]
    /\ ctx \in {"none", "live", "cancelled"}
    /\ panicked \in {NIL} \cup Names

-----------------------------------------------------------------------------
\* opts: orm.WithContext aside, one option for each field that is set.
Options(cf) ==
    SelectSeq([i \in DOMAIN OptionOf |->
                   [option |-> OptionOf[i].option, value |-> cf.set[OptionOf[i].field]]],
              LAMBDA o : o.value # 0)

\* orm.Open: each option sets the setting of its name, the later of two
\* options for one setting wins.
Open(opts) ==
    FoldLeft(LAMBDA made, o : [made EXCEPT ![o.option] = o.value], Unset, opts)

\* The entries NewDB does not skip.
Usable(cfg) == {i \in DOMAIN cfg : cfg[i].dsn /\ cfg[i].driver}

\* The entries NewDB opens a database for: the usable ones up to the first
\* whose orm.Open fails; reachable are the entries whose Open succeeds.
Opened(cfg, reachable) ==
    {i \in Usable(cfg) : \A j \in Usable(cfg) \ reachable : i < j}

\* A map in which the first entry of a name keeps it.
RegisteredFirstWins(cfg, opened) ==
    [n \in {cfg[i].name : i \in opened} |-> Min({i \in opened : cfg[i].name = n})]

\* ret.dbs after the loop: ret.dbs[cf.Name] = db for each opened entry in
\* turn, so the last entry of a name has it.
Registered(cfg, opened) ==
    [n \in {cfg[i].name : i \in opened} |-> Max({i \in opened : cfg[i].name = n})]

Init ==
    /\ config = NIL
    /\ pool = [h \in Handles |-> "unopened"]
    /\ settings = [h \in Handles |-> Unset]
    /\ server = NIL
    /\ held = [g \in Goroutines |-> NIL]
    /\ ctx = "none"
    /\ panicked = NIL

\* NewDB(ctx, config).  When an Open fails NewDB cancels its context and
\* returns the error; the databases it opened before stay open.
NewDB(cfg, reachable) ==
    LET opened == Opened(cfg, reachable)
        dbs    == Registered(cfg, opened)
        failed == Usable(cfg) \ reachable # {}
    IN /\ config = NIL
       /\ config' = cfg
       /\ pool' = [h \in Handles |-> IF h \in opened THEN "open" ELSE pool[h]]
       /\ settings' = [h \in Handles |->
                          IF h \in opened THEN Open(Options(cfg[h])) ELSE settings[h]]
       /\ ctx' = IF failed THEN "cancelled" ELSE "live"
       /\ server' = IF failed THEN NIL
                    ELSE IF DefaultName \in DOMAIN dbs
                         THEN [name |-> DefaultName, db |-> dbs[DefaultName], dbs |-> dbs]
                         ELSE [name |-> "", db |-> NIL, dbs |-> dbs]
       /\ UNCHANGED <<held, panicked>>

\* The DBs there are: the one NewDB returned and those GetDB handed out.
Holders == {p \in {server} \cup {held[g] : g \in Goroutines} : p # NIL}

\* A GetDB that leaves dbs out of the struct it returns: a nil map.
ChildWithoutMap(p, name) == [name |-> name, db |-> p.dbs[name], dbs |-> NIL]

\* A GetDB whose result has a map of its own, with its database only.
ChildWithOwnMap(p, name) ==
    [name |-> name, db |-> p.dbs[name], dbs |-> [n \in {name} |-> p.dbs[name]]]

\* What GetDB returns for a name p.dbs has: the database of that name,
\* and p's map.
Child(p, name) == [name |-> name, db |-> p.dbs[name], dbs |-> p.dbs]

\* held[g] = p.GetDB(name), p any DB there is.
GetDB(g, p, name) ==
    /\ panicked = NIL
    /\ name \in DOMAIN p.dbs
    /\ held' = [held EXCEPT ![g] = Child(p, name)]
    /\ UNCHANGED <<config, pool, settings, server, ctx, panicked>>

\* p.GetDB(name) of a name p.dbs does not have, and of the nil DB a failed
\* NewDB returned: panic("nil db").
GetDBPanics(p, name) ==
    /\ panicked = NIL
    /\ config # NIL
    /\ ~(p # NIL /\ name \in DOMAIN p.dbs)
    /\ panicked' = name
    /\ UNCHANGED <<config, pool, settings, server, held, ctx>>

\* p.Close(): every database of p.dbs is closed.
Close(p) ==
    /\ panicked = NIL
    /\ \E n \in DOMAIN p.dbs : pool[p.dbs[n]] = "open"
    /\ pool' = [h \in Handles |-> IF h \in Range(p.dbs) THEN "closed" ELSE pool[h]]
    /\ UNCHANGED <<config, settings, server, held, ctx, panicked>>

Next ==
    \/ \E cfg \in BoundedSeq(Entries, MaxDatabases), reachable \in SUBSET Handles :
          NewDB(cfg, reachable)
    \/ \E g \in Goroutines, p \in Holders, name \in Names : GetDB(g, p, name)
    \/ \E p \in Holders \cup {server}, name \in Names : GetDBPanics(p, name)
    \/ \E p \in Holders : Close(p)

Spec == Init /\ [][Next]_vars

-----------------------------------------------------------------------------
(* Properties.                                                             *)

\* The names of the configuration that have a usable entry.
Configured == {config[i].name : i \in Usable(config)}

\* After a NewDB that succeeded, GetDB answers for exactly the configured
\* names, each with the database opened for the last usable entry of that
\* name, and panics for no configured name ("panic if db[name] is not
\* exist"); every DB handed out, by the server or by another DB handed
\* out, embeds the database registered under its name.  The one DB that
\* embeds no database (a nil orm.DB, on which every query panics) is the
\* DB NewDB returns for a configuration without a usable "__default__";
\* GetDB never hands out another.
GetDBAnswersForConfiguredNames ==
    /\ server # NIL =>
          /\ DOMAIN server.dbs = Configured
          /\ \A n \in Configured :
                config[server.dbs[n]].name = n
                /\ \A i \in Usable(config) : config[i].name = n => i <= server.dbs[n]
          /\ panicked \notin Configured
    /\ \A p \in Holders :
          IF p.name = ""
          THEN p = server /\ p.db = NIL /\ DefaultName \notin Configured
          ELSE p.db = server.dbs[p.name]

\* Close closes the whole set, whoever calls it: after any step that
\* closes a database, through the server or through a DB that GetDB handed
\* out, no registered database is open (a DB from GetDB shares p.dbs).
CloseClosesEveryDatabase ==
    [][(\E h \in Handles : pool[h] = "open" /\ pool'[h] = "closed")
          => \A n \in DOMAIN server.dbs : pool'[server.dbs[n]] = "closed"]_vars

\* Every open database can still be closed: it is registered in the DB
\* that NewDB returned, the only value serverDB.Close is reached through.
EveryOpenDatabaseCanBeClosed ==
    \A h \in Handles :
        pool[h] = "open" => server # NIL /\ h \in Range(server.dbs)

\* Every setting of an open database is the one its configuration asks
\* for: ConnMaxIdletime configures the idle time of its connections, as
\* ConnMaxLifetime configures their lifetime.
SettingsAreTheConfigured ==
    \A h \in Handles :
        pool[h] # "unopened" =>
            \A s \in Settings : settings[h][s] = config[h].set[FieldOf[s]]
=============================================================================
