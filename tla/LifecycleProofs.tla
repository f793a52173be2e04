---------------------------- MODULE LifecycleProofs ----------------------------
(***************************************************************************)
(* Machine-checked proofs about the database across processes and          *)
(* configurations and about the doctor, for every set of configurations,   *)
(* connections and jobs, every schema version and every bound; and about   *)
(* the configuration document, for every document of the right shape.      *)
(***************************************************************************)
EXTENDS ConfigurationDocuments, FiniteSetTheorems, SequenceTheorems, TLAPS

-----------------------------------------------------------------------------
(* The inductive invariant.  What it says of a database it says of the one *)
(* in the backup as well, which a restore may put in its place.            *)

LatestOf(d) == d.bindings[Len(d.bindings)]

JobRows ==
    {NoJob} \cup [status : {"pending", "terminal"},
                  source : {"signer_response", "discovery_handler"},
                  configuration : Configurations]

Databases ==
    [version : 0..SchemaVersion, birth : Configurations \cup {NoConfiguration},
     bindings : Seq(Configurations), connections : [Connections -> ConnectionRows],
     jobs : [Jobs -> JobRows],
     admitted : [Connections -> Configurations \cup {NoConfiguration}],
     approved : [Connections -> 0..MaxGenerations]]

\* The relays a configuration keeps of another one, with their settings.
Keeps(made, c) ==
    \A r \in DOMAIN RelaysOf[made] :
        r \in DOMAIN RelaysOf[c] /\ RelaysOf[c][r] = RelaysOf[made][r]

JobFits(job, c) == job.status = "pending" => Keeps(job.configuration, c)

\* No generation of the history after the given one narrows the ceiling.
Unnarrowed(bindings, generation) ==
    \A i \in generation..(Len(bindings) - 1) : ~Narrows(bindings[i], bindings[i + 1])

SessionFits(row, generation, bindings) ==
    row.status = "active" /\ ~(row.granted \subseteq Ceiling[bindings[Len(bindings)]]) =>
        generation # 0 /\ Unnarrowed(bindings, generation)

IdentityFits(row, admitted, c) ==
    row.status \in {"pending", "active"} \/ row.challenge = "pending" =>
        Identity[admitted] = Identity[c]

\* No row without a binding.
Empty(d) == (\A k \in Connections : d.connections[k] = NoConnection) /\ (\A j \in Jobs : d.jobs[j] = NoJob)

DatabaseInv(d) ==
    /\ d \in Databases /\ Len(d.bindings) <= MaxGenerations
    /\ d.bindings # <<>> => d.bindings[1] = d.birth
    /\ d.bindings = <<>> => Empty(d)
    /\ \A j \in Jobs : JobFits(d.jobs[j], LatestOf(d))
    /\ \A k \in Connections : SessionFits(d.connections[k], d.approved[k], d.bindings)
    /\ \A k \in Connections : IdentityFits(d.connections[k], d.admitted[k], LatestOf(d))

HostInv ==
    /\ host \in [mode : {"none", "opening", "open", "daemon"},
                 configuration : Configurations \cup {NoConfiguration}, initializing : BOOLEAN]
    /\ host.mode # "none" => host.configuration \in Configurations
    /\ host.mode = "daemon" => Bound(host.configuration)

LifecycleInv == DatabaseInv(database) /\ DatabaseInv(snapshot) /\ HostInv

-----------------------------------------------------------------------------
(* Facts about one database.                                               *)

LEMMA BoundLatest ==
    ASSUME DatabaseInv(database), NEW c, Bound(c)
    PROVE  database.bindings # <<>> /\ LatestOf(database) = c /\ Len(database.bindings) \in 1..MaxGenerations
BY LifecycleAssumption DEF Bound, latest, Last, LatestOf, DatabaseInv, Databases

\* A database without rows fits every configuration.
LEMMA EmptyFits ==
    ASSUME NEW d \in Databases, Empty(d), Len(d.bindings) <= MaxGenerations,
           d.bindings # <<>> => d.bindings[1] = d.birth
    PROVE  DatabaseInv(d)
<1>1. \A j \in Jobs : JobFits(d.jobs[j], LatestOf(d))
  BY DEF Empty, NoJob, JobFits
<1>2. \A k \in Connections : SessionFits(d.connections[k], d.approved[k], d.bindings)
  BY DEF Empty, NoConnection, SessionFits
<1>3. \A k \in Connections : IdentityFits(d.connections[k], d.admitted[k], LatestOf(d))
  BY DEF Empty, NoConnection, IdentityFits
<1> QED
  BY <1>1, <1>2, <1>3 DEF DatabaseInv

LEMMA MissingIsDatabase == Missing \in Databases /\ Empty(Missing) /\ DatabaseInv(Missing)
<1>1. Missing \in Databases
  BY LifecycleAssumption DEF Missing, Databases, NoConnection, ConnectionRows, JobRows
<1>2. Empty(Missing) /\ Missing.bindings = <<>>
  BY DEF Missing, Empty
<1> QED
  BY <1>1, <1>2, EmptyFits, LifecycleAssumption

\* A step that changes one connection, with the histories that belong to it.
LEMMA ConnectionStep ==
    ASSUME NEW d, DatabaseInv(d), d.bindings # <<>>, NEW e \in Databases,
           e.bindings = d.bindings, e.birth = d.birth, e.jobs = d.jobs,
           NEW k \in Connections,
           \A m \in Connections \ {k} :
               /\ e.connections[m] = d.connections[m] /\ e.approved[m] = d.approved[m]
               /\ e.admitted[m] = d.admitted[m],
           SessionFits(e.connections[k], e.approved[k], e.bindings),
           IdentityFits(e.connections[k], e.admitted[k], LatestOf(e))
    PROVE  DatabaseInv(e)
<1>1. LatestOf(e) = LatestOf(d)
  BY DEF LatestOf
<1>2. \A m \in Connections : SessionFits(e.connections[m], e.approved[m], e.bindings)
  BY DEF DatabaseInv
<1>3. \A m \in Connections : IdentityFits(e.connections[m], e.admitted[m], LatestOf(e))
  BY <1>1 DEF DatabaseInv
<1> QED
  BY <1>1, <1>2, <1>3 DEF DatabaseInv

LEMMA JobStep ==
    ASSUME NEW d, DatabaseInv(d), d.bindings # <<>>, NEW e \in Databases,
           e.bindings = d.bindings, e.birth = d.birth, e.connections = d.connections,
           e.approved = d.approved, e.admitted = d.admitted,
           NEW j \in Jobs, \A i \in Jobs \ {j} : e.jobs[i] = d.jobs[i],
           JobFits(e.jobs[j], LatestOf(e))
    PROVE  DatabaseInv(e)
<1>1. LatestOf(e) = LatestOf(d)
  BY DEF LatestOf
<1>2. \A i \in Jobs : JobFits(e.jobs[i], LatestOf(e))
  BY <1>1 DEF DatabaseInv
<1> QED
  BY <1>1, <1>2 DEF DatabaseInv

-----------------------------------------------------------------------------
(* The initial states.                                                     *)

LEMMA LifecycleInitial == Init => LifecycleInv
<1> SUFFICES ASSUME Init PROVE LifecycleInv
  OBVIOUS
<1>1. HostInv
  BY LifecycleAssumption DEF Init, NoHost, HostInv
<1>2. DatabaseInv(database)
  <2>1. CASE database = Missing
    BY <2>1, MissingIsDatabase
  <2>2. ASSUME NEW c \in Configurations, database = [Missing EXCEPT !.version = 1, !.birth = c]
        PROVE  DatabaseInv(database)
    <3>0. Missing \in Databases /\ Missing.bindings = <<>> /\ 1 \in 0..SchemaVersion
      BY MissingIsDatabase, LifecycleAssumption DEF Missing
    <3>1. database \in Databases /\ database.bindings = <<>>
      BY <2>2, <3>0 DEF Databases
    <3>2. Empty(database)
      BY <2>2, MissingIsDatabase DEF Empty, Missing
    <3> QED
      BY <3>1, <3>2, EmptyFits, LifecycleAssumption
  <2> QED
    BY <2>1, <2>2 DEF Init
<1> QED
  BY <1>1, <1>2, MissingIsDatabase DEF Init, LifecycleInv

-----------------------------------------------------------------------------
(* Creation, opening, migration and binding.                               *)

LEMMA VersionStep ==
    ASSUME NEW d, DatabaseInv(d), NEW v \in 0..SchemaVersion
    PROVE  DatabaseInv([d EXCEPT !.version = v])
<1> DEFINE e == [d EXCEPT !.version = v]
<1>1. /\ e \in Databases /\ e.bindings = d.bindings /\ e.birth = d.birth /\ e.jobs = d.jobs
      /\ e.connections = d.connections /\ e.approved = d.approved /\ e.admitted = d.admitted
  BY DEF DatabaseInv, Databases
<1> HIDE DEF e
<1>2. LatestOf(e) = LatestOf(d) /\ (Empty(d) => Empty(e))
  BY <1>1 DEF LatestOf, Empty
<1>3. DatabaseInv(e)
  BY <1>1, <1>2 DEF DatabaseInv
<1> QED
  BY <1>3 DEF e

\* The transaction that writes what is missing of the birth record and of the
\* first binding leaves a database that begins at its birth record.
LEMMA BindStep ==
    ASSUME LifecycleInv, BindOrVerify
    PROVE  DatabaseInv(database')
<1> DEFINE c == host.configuration
<1>1. c \in Configurations
  BY DEF LifecycleInv, HostInv, BindOrVerify
<1>2. CASE ~Accepts(c)
  BY <1>2 DEF BindOrVerify, LifecycleInv
<1>3. CASE Accepts(c)
  <2>1. database' = [database EXCEPT !.birth = Birth(c), !.bindings = BindingsWith(c)]
    BY <1>3 DEF BindOrVerify
  <2>2. Birth(c) \in Configurations \cup {NoConfiguration} /\ database \in Databases
    BY <1>1 DEF Birth, LifecycleInv, DatabaseInv, Databases
  <2>3. CASE database.bindings = <<>>
    <3>1. BindingsWith(c) = <<Birth(c)>> /\ Birth(c) \in Configurations
      BY <1>1, <2>2, <2>3 DEF BindingsWith, Seeded, Birth
    <3> DEFINE b == Birth(c)
               s == <<b>>
    <3>2. s \in Seq(Configurations) /\ Len(s) = 1 /\ s[1] = b
      BY <3>1
    <3>3. database' = [database EXCEPT !.birth = b, !.bindings = s] /\ b \in Configurations
      BY <2>1, <3>1
    <3> HIDE DEF b, s
    <3>4. /\ database' \in Databases /\ database'.bindings = s /\ database'.birth = b
          /\ database'.connections = database.connections /\ database'.jobs = database.jobs
      BY <2>2, <3>2, <3>3 DEF Databases
    <3>5. Empty(database)
      BY <2>3 DEF LifecycleInv, DatabaseInv
    <3>6. Empty(database')
      BY <3>4, <3>5 DEF Empty
    <3> QED
      <4>1. /\ Len(database'.bindings) <= MaxGenerations
            /\ database'.bindings # <<>> => database'.bindings[1] = database'.birth
        <5>1. 1 <= MaxGenerations
          BY LifecycleAssumption
        <5>2. database'.bindings = s /\ database'.birth = b
          BY <3>4
        <5>3. Len(database'.bindings) = 1 /\ database'.bindings[1] = b
          BY <3>2, <5>2
        <5> QED
          BY <5>1, <5>2, <5>3
      <4>2. database' \in Databases
        BY <3>4
      <4> QED
        BY <3>6, <4>1, <4>2, EmptyFits, Zenon
  <2>4. CASE database.bindings # <<>>
    <3>1. database.birth # NoConfiguration
      <4>1. database.bindings \in Seq(Configurations) /\ database.bindings[1] = database.birth
        BY <2>4 DEF LifecycleInv, DatabaseInv, Databases
      <4>2. database.bindings[1] \in Configurations
        BY <4>1, <2>4
      <4> QED
        BY <4>1, <4>2, LifecycleAssumption
    <3>2. Birth(c) = database.birth /\ BindingsWith(c) = database.bindings
      BY <2>4, <3>1 DEF Birth, BindingsWith
    <3>3. database' = database
      BY <2>1, <2>2, <3>2 DEF Databases
    <3> QED
      BY <3>3 DEF LifecycleInv
  <2> QED
    BY <2>3, <2>4
<1> QED
  BY <1>2, <1>3

-----------------------------------------------------------------------------
(* The apply of another configuration.                                     *)

\* What unfinished work needs of the current configuration, the candidate keeps.
LEMMA ApplyKeepsTargets ==
    ASSUME NEW job, NEW current, NEW candidate, JobFits(job, current),
           job.status = "pending",
           \A r \in changed_existing_relays(current, candidate) :
               r \notin DOMAIN RelaysOf[job.configuration]
    PROVE  JobFits(job, candidate)
<1>1. ASSUME NEW r \in DOMAIN RelaysOf[job.configuration]
      PROVE  r \in DOMAIN RelaysOf[candidate] /\ RelaysOf[candidate][r] = RelaysOf[job.configuration][r]
  <2>1. r \in DOMAIN RelaysOf[current] /\ RelaysOf[current][r] = RelaysOf[job.configuration][r]
    BY <1>1 DEF JobFits, Keeps
  <2>2. r \notin changed_existing_relays(current, candidate)
    BY <1>1
  <2> QED
    BY <2>1, <2>2 DEF changed_existing_relays
<1> QED
  BY <1>1 DEF JobFits, Keeps

\* What a connection becomes when the configuration changes.
Revoked(row, current, candidate) ==
    IF Identity[candidate] # Identity[current] THEN revoke_for_identity_change(row)
    ELSE IF Narrows(current, candidate) THEN revoke_for_permission_narrowing(row, Ceiling[candidate])
    ELSE row

LEMMA RevokedRow ==
    ASSUME NEW row \in ConnectionRows, NEW current, NEW candidate
    PROVE  /\ Revoked(row, current, candidate) \in ConnectionRows
           /\ Revoked(row, current, candidate).granted = row.granted
BY DEF Revoked, revoke_for_identity_change, revoke_for_permission_narrowing, ConnectionRows

\* A session that is left fits the history with the candidate at its end.
LEMMA RevokedSessionFits ==
    ASSUME NEW row \in ConnectionRows, NEW generation \in Nat, NEW bindings \in Seq(Configurations),
           bindings # <<>>, NEW candidate \in Configurations,
           SessionFits(row, generation, bindings)
    PROVE  SessionFits(Revoked(row, bindings[Len(bindings)], candidate), generation,
                       Append(bindings, candidate))
<1> DEFINE current == bindings[Len(bindings)]
           left == Revoked(row, current, candidate)
           longer == Append(bindings, candidate)
<1>1. /\ Len(longer) = Len(bindings) + 1 /\ longer[Len(longer)] = candidate /\ Len(bindings) \in Nat
      /\ Len(bindings) # 0 /\ \A i \in 1..Len(bindings) : longer[i] = bindings[i]
  OBVIOUS
<1>2. current \in Configurations
  BY <1>1
<1>3. SUFFICES ASSUME left.status = "active", ~(left.granted \subseteq Ceiling[candidate])
               PROVE  generation # 0 /\ Unnarrowed(longer, generation)
  BY <1>1 DEF SessionFits
<1>4. left.granted = row.granted
  BY RevokedRow
<1>5. Identity[candidate] = Identity[current]
  BY <1>3 DEF Revoked, revoke_for_identity_change, ConnectionRows
<1>6. ~Narrows(current, candidate)
  BY <1>3, <1>4, <1>5 DEF Revoked, revoke_for_permission_narrowing, ConnectionRows
<1>7. left = row
  BY <1>5, <1>6 DEF Revoked
<1>8. ~(row.granted \subseteq Ceiling[current])
  BY <1>3, <1>6, <1>7 DEF Narrows
<1>9. generation # 0 /\ Unnarrowed(bindings, generation)
  BY <1>3, <1>7, <1>8 DEF SessionFits
<1> HIDE DEF left, longer, current
<1>10. ASSUME NEW i \in generation..(Len(longer) - 1)
       PROVE  ~Narrows(longer[i], longer[i + 1])
  <2>1. CASE i = Len(bindings)
    <3>1. longer[i] = current /\ longer[i + 1] = candidate
      BY <1>1, <2>1 DEF current
    <3> QED
      BY <3>1, <1>6
  <2>2. CASE i # Len(bindings)
    <3>1. i \in generation..(Len(bindings) - 1) /\ i \in 1..Len(bindings) /\ i + 1 \in 1..Len(bindings)
      BY <1>1, <1>9, <1>10, <2>2
    <3>2. longer[i] = bindings[i] /\ longer[i + 1] = bindings[i + 1]
      BY <1>1, <3>1
    <3>3. ~Narrows(bindings[i], bindings[i + 1])
      BY <1>9, <3>1 DEF Unnarrowed
    <3> QED
      BY <3>2, <3>3
  <2> QED
    BY <2>1, <2>2
<1> QED
  BY <1>9, <1>10 DEF Unnarrowed

LEMMA RevokedIdentityFits ==
    ASSUME NEW row \in ConnectionRows, NEW admitted, NEW current, NEW candidate,
           IdentityFits(row, admitted, current)
    PROVE  IdentityFits(Revoked(row, current, candidate), admitted, candidate)
<1>1. CASE Identity[candidate] # Identity[current]
  BY <1>1 DEF IdentityFits, Revoked, revoke_for_identity_change, ConnectionRows
<1>2. CASE Identity[candidate] = Identity[current]
  <2>1. CASE Narrows(current, candidate)
    BY <1>2, <2>1 DEF IdentityFits, Revoked, revoke_for_permission_narrowing, ConnectionRows
  <2>2. CASE ~Narrows(current, candidate)
    BY <1>2, <2>2 DEF IdentityFits, Revoked
  <2> QED
    BY <2>1, <2>2
<1> QED
  BY <1>1, <1>2

LEMMA ApplyStep ==
    ASSUME LifecycleInv, NEW candidate \in Configurations, ApplyConfiguration(candidate)
    PROVE  DatabaseInv(database')
<1> DEFINE current == host.configuration
           d == database
           e == database'
<1>1. /\ DatabaseInv(d) /\ d \in Databases /\ Bound(current) /\ Len(d.bindings) < MaxGenerations
  BY DEF LifecycleInv, DatabaseInv, ApplyConfiguration, HasGenerationLeft
<1>2. d.bindings # <<>> /\ LatestOf(d) = current /\ Len(d.bindings) \in 1..MaxGenerations
  BY <1>1, BoundLatest
<1>3. e = [d EXCEPT !.bindings = Append(d.bindings, candidate),
                    !.connections = [k \in Connections |-> Revoked(d.connections[k], current, candidate)]]
  BY DEF ApplyConfiguration, Revoked
<1>4. \A k \in Connections : d.connections[k] \in ConnectionRows
  BY <1>1 DEF Databases
<1>5. \A k \in Connections : Revoked(d.connections[k], current, candidate) \in ConnectionRows
  BY <1>4, RevokedRow
<1>6. Append(d.bindings, candidate) \in Seq(Configurations)
  BY <1>1 DEF Databases
<1>7. /\ e \in Databases /\ e.bindings = Append(d.bindings, candidate) /\ e.birth = d.birth
      /\ e.jobs = d.jobs /\ e.approved = d.approved /\ e.admitted = d.admitted
      /\ \A k \in Connections : e.connections[k] = Revoked(d.connections[k], current, candidate)
  BY <1>1, <1>3, <1>5, <1>6 DEF Databases
<1>8. /\ Len(e.bindings) = Len(d.bindings) + 1 /\ LatestOf(e) = candidate
      /\ e.bindings # <<>> /\ e.bindings[1] = d.bindings[1]
  <2>1. d.bindings \in Seq(Configurations)
    BY <1>1 DEF Databases
  <2> QED
    BY <1>2, <1>7, <2>1 DEF LatestOf
<1>9. ASSUME NEW j \in Jobs PROVE JobFits(e.jobs[j], LatestOf(e))
  <2>1. CASE d.jobs[j].status # "pending"
    BY <1>7, <2>1 DEF JobFits
  <2>2. CASE d.jobs[j].status = "pending"
    <3>1. JobFits(d.jobs[j], current)
      BY <1>1, <1>2, <1>9 DEF DatabaseInv
    <3>2. \A r \in changed_existing_relays(current, candidate) :
              r \notin DOMAIN RelaysOf[d.jobs[j].configuration]
      BY <2>2, <1>9 DEF ApplyConfiguration, relay_has_nonterminal_job, Unfinished
    <3>3. JobFits(d.jobs[j], candidate)
      BY <2>2, <3>1, <3>2, ApplyKeepsTargets
    <3> QED
      BY <3>3, <1>7, <1>8
  <2> QED
    BY <2>1, <2>2
<1>10. ASSUME NEW k \in Connections PROVE SessionFits(e.connections[k], e.approved[k], e.bindings)
  <2>1. SessionFits(d.connections[k], d.approved[k], d.bindings)
    BY <1>1 DEF DatabaseInv
  <2>2. d.approved[k] \in Nat /\ d.bindings \in Seq(Configurations)
    BY <1>1, LifecycleAssumption DEF Databases
  <2>3. SessionFits(Revoked(d.connections[k], d.bindings[Len(d.bindings)], candidate), d.approved[k],
                    Append(d.bindings, candidate))
    BY <1>2, <1>4, <2>1, <2>2, RevokedSessionFits
  <2>4. SessionFits(Revoked(d.connections[k], current, candidate), d.approved[k],
                    Append(d.bindings, candidate))
    BY <1>2, <2>3 DEF LatestOf
  <2> QED
    BY <1>7, <2>4
<1>11. ASSUME NEW k \in Connections PROVE IdentityFits(e.connections[k], e.admitted[k], LatestOf(e))
  <2>1. IdentityFits(d.connections[k], d.admitted[k], current)
    BY <1>1, <1>2 DEF DatabaseInv
  <2>2. IdentityFits(Revoked(d.connections[k], current, candidate), d.admitted[k], candidate)
    BY <1>4, <2>1, RevokedIdentityFits
  <2> QED
    BY <1>7, <1>8, <2>2
<1>12. e.bindings[1] = e.birth /\ Len(e.bindings) <= MaxGenerations
  <2>1. d.bindings[1] = d.birth
    BY <1>1, <1>2 DEF DatabaseInv
  <2> QED
    BY <1>1, <1>2, <1>7, <1>8, <2>1, LifecycleAssumption
<1> QED
  BY <1>7, <1>8, <1>9, <1>10, <1>11, <1>12 DEF DatabaseInv

-----------------------------------------------------------------------------
(* The daemon's work on the rows.                                          *)

\* A transaction of the daemon changes one connection; what it leaves fits.
LEMMA RowStep ==
    ASSUME LifecycleInv, InTransaction, NEW k \in Connections, NEW row \in ConnectionRows,
           SetRow(k, row),
           SessionFits(row, database.approved[k], database.bindings),
           IdentityFits(row, database.admitted[k], LatestOf(database))
    PROVE  DatabaseInv(database')
<1>1. DatabaseInv(database) /\ database \in Databases /\ database.bindings # <<>>
  BY BoundLatest DEF LifecycleInv, DatabaseInv, InTransaction
<1>2. database' = [database EXCEPT !.connections = [@ EXCEPT ![k] = row]]
  BY DEF SetRow
<1>3. /\ database' \in Databases /\ database'.bindings = database.bindings
      /\ database'.birth = database.birth /\ database'.jobs = database.jobs
      /\ database'.approved = database.approved /\ database'.admitted = database.admitted
      /\ database'.connections = [database.connections EXCEPT ![k] = row]
      /\ database'.connections[k] = row
  BY <1>1, <1>2 DEF Databases
<1>4. \A m \in Connections \ {k} : database'.connections[m] = database.connections[m]
  BY <1>1, <1>3 DEF Databases
<1>5. LatestOf(database') = LatestOf(database)
  BY <1>3 DEF LatestOf
<1> DEFINE e == database'
<1>6. /\ e \in Databases /\ e.bindings = database.bindings
      /\ e.birth = database.birth /\ e.jobs = database.jobs
      /\ \A m \in Connections \ {k} :
           /\ e.connections[m] = database.connections[m] /\ e.approved[m] = database.approved[m]
           /\ e.admitted[m] = database.admitted[m]
      /\ SessionFits(e.connections[k], e.approved[k], e.bindings)
      /\ IdentityFits(e.connections[k], e.admitted[k], LatestOf(e))
  BY <1>3, <1>4, <1>5
<1> HIDE DEF e
<1>7. DatabaseInv(e)
  BY <1>1, <1>6, ConnectionStep
<1> QED
  BY <1>7 DEF e

\* A row of the database, and what is known of it.
LEMMA RowFits ==
    ASSUME LifecycleInv, NEW k \in Connections
    PROVE  /\ Row(k) \in ConnectionRows
           /\ SessionFits(Row(k), database.approved[k], database.bindings)
           /\ IdentityFits(Row(k), database.admitted[k], LatestOf(database))
BY DEF LifecycleInv, DatabaseInv, Databases, Row

\* A row whose session ended, or whose challenge was issued or answered.
LEMMA DismissStep ==
    ASSUME LifecycleInv, NEW k \in Connections, Dismiss(k)
    PROVE  DatabaseInv(database')
<1>1. PICK status \in {"denied", "expired"} :
          /\ SetRow(k, [Row(k) EXCEPT !.status = status])
          /\ Row(k).status \in {"pending", "active"}
  BY DEF Dismiss
<1> DEFINE row == [Row(k) EXCEPT !.status = status]
<1>2. row \in ConnectionRows /\ row.status = status /\ row.challenge = Row(k).challenge
  BY RowFits DEF ConnectionRows
<1>3. SessionFits(row, database.approved[k], database.bindings)
  BY <1>2 DEF SessionFits
<1>4. IdentityFits(row, database.admitted[k], LatestOf(database))
  BY <1>1, <1>2, RowFits DEF IdentityFits
<1>5. InTransaction /\ SetRow(k, row)
  BY <1>1 DEF Dismiss
<1> HIDE DEF row
<1> QED
  BY <1>2, <1>3, <1>4, <1>5, RowStep

LEMMA ChallengeStep ==
    ASSUME LifecycleInv, NEW k \in Connections, Challenge(k)
    PROVE  DatabaseInv(database')
<1>1. PICK state \in {"pending", "authorized"} : SetRow(k, [Row(k) EXCEPT !.challenge = state])
  BY DEF Challenge
<1> DEFINE row == [Row(k) EXCEPT !.challenge = state]
<1>2. /\ row \in ConnectionRows /\ row.status = Row(k).status /\ row.granted = Row(k).granted
      /\ Row(k).status = "active"
  BY RowFits DEF ConnectionRows, Challenge
<1>3. SessionFits(row, database.approved[k], database.bindings)
  BY <1>2, RowFits DEF SessionFits
<1>4. IdentityFits(row, database.admitted[k], LatestOf(database))
  BY <1>2, RowFits DEF IdentityFits
<1>5. InTransaction /\ SetRow(k, row)
  BY <1>1 DEF Challenge
<1> HIDE DEF row
<1> QED
  BY <1>2, <1>3, <1>4, <1>5, RowStep

\* A connection is admitted under the latest configuration, and active at once
\* only with permissions of its ceiling.
LEMMA ConnectStep ==
    ASSUME LifecycleInv, NEW k \in Connections, NEW requested \in SUBSET Permissions,
           Connect(k, requested)
    PROVE  DatabaseInv(database')
<1> DEFINE c == host.configuration
           row == IF c \in Trusting
                  THEN [Row(k) EXCEPT !.status = "active", !.requested = requested, !.granted = requested]
                  ELSE [Row(k) EXCEPT !.status = "pending", !.requested = requested]
           e == database'
<1>1. /\ DatabaseInv(database) /\ database \in Databases /\ database.bindings # <<>>
      /\ LatestOf(database) = c /\ c \in Configurations
  BY BoundLatest DEF LifecycleInv, DatabaseInv, HostInv, Connect, InTransaction
<1>2. /\ row \in ConnectionRows /\ row.challenge = Row(k).challenge
      /\ row.status = "active" => row.granted \subseteq Ceiling[c]
  BY RowFits DEF ConnectionRows, Connect
<1>3. e = [database EXCEPT !.connections = [database.connections EXCEPT ![k] = row],
                           !.admitted = [database.admitted EXCEPT ![k] = c]]
  BY DEF Connect, Row
<1> HIDE DEF row
<1>4. /\ e \in Databases /\ e.bindings = database.bindings
      /\ e.birth = database.birth /\ e.jobs = database.jobs /\ e.approved = database.approved
      /\ e.connections = [database.connections EXCEPT ![k] = row]
      /\ e.admitted = [database.admitted EXCEPT ![k] = c]
  BY <1>1, <1>2, <1>3 DEF Databases
<1>5. /\ e.connections[k] = row /\ e.admitted[k] = c
      /\ \A m \in Connections \ {k} :
           /\ e.connections[m] = database.connections[m] /\ e.approved[m] = database.approved[m]
           /\ e.admitted[m] = database.admitted[m]
  BY <1>1, <1>4 DEF Databases
<1>6. LatestOf(e) = c
  BY <1>1, <1>4 DEF LatestOf
<1>7. SessionFits(e.connections[k], e.approved[k], e.bindings)
  BY <1>2, <1>5, <1>6 DEF SessionFits, LatestOf
<1>8. IdentityFits(e.connections[k], e.admitted[k], LatestOf(e))
  BY <1>5, <1>6 DEF IdentityFits
<1> HIDE DEF e, c
<1>9. /\ e \in Databases /\ e.bindings = database.bindings
      /\ e.birth = database.birth /\ e.jobs = database.jobs
      /\ \A m \in Connections \ {k} :
           /\ e.connections[m] = database.connections[m] /\ e.approved[m] = database.approved[m]
           /\ e.admitted[m] = database.admitted[m]
  BY <1>4, <1>5
<1>10. DatabaseInv(database) /\ database.bindings # <<>>
  BY <1>1
<1>11. DatabaseInv(e)
  BY <1>7, <1>8, <1>9, <1>10, ConnectionStep
<1> QED
  BY <1>11 DEF e

\* An approval is dated by the latest generation, which no narrowing follows.
LEMMA ApproveStep ==
    ASSUME LifecycleInv, NEW k \in Connections, NEW granted \in SUBSET Permissions,
           Approve(k, granted)
    PROVE  DatabaseInv(database')
<1> DEFINE row == [Row(k) EXCEPT !.status = "active", !.granted = granted]
           g == Len(database.bindings)
           e == database'
<1>1. /\ DatabaseInv(database) /\ database \in Databases /\ database.bindings # <<>>
      /\ g \in 1..MaxGenerations
  BY BoundLatest DEF LifecycleInv, DatabaseInv, Approve, InTransaction
<1>2. row \in ConnectionRows /\ row.challenge = Row(k).challenge /\ Row(k).status = "pending"
  BY RowFits DEF ConnectionRows, Approve
<1>3. e = [database EXCEPT !.connections = [database.connections EXCEPT ![k] = row],
                           !.approved = [database.approved EXCEPT ![k] = g]]
  BY DEF Approve, Row
<1> HIDE DEF row, g
<1>4. /\ e \in Databases /\ e.bindings = database.bindings
      /\ e.birth = database.birth /\ e.jobs = database.jobs /\ e.admitted = database.admitted
      /\ e.connections = [database.connections EXCEPT ![k] = row]
      /\ e.approved = [database.approved EXCEPT ![k] = g]
  <2>1. g \in 0..MaxGenerations
    BY <1>1, LifecycleAssumption
  <2> QED
    BY <1>1, <1>2, <1>3, <2>1 DEF Databases
<1>5. /\ e.connections[k] = row /\ e.approved[k] = g
      /\ \A m \in Connections \ {k} :
           /\ e.connections[m] = database.connections[m] /\ e.approved[m] = database.approved[m]
           /\ e.admitted[m] = database.admitted[m]
  BY <1>1, <1>4 DEF Databases
<1>6. LatestOf(e) = LatestOf(database)
  BY <1>4 DEF LatestOf
<1>7. SessionFits(e.connections[k], e.approved[k], e.bindings)
  <2>1. g # 0 /\ g..(g - 1) = {}
    BY <1>1, LifecycleAssumption
  <2>2. Unnarrowed(e.bindings, g)
    BY <1>4, <2>1 DEF Unnarrowed, g
  <2> QED
    BY <1>5, <2>1, <2>2 DEF SessionFits
<1>8. IdentityFits(e.connections[k], e.admitted[k], LatestOf(e))
  <2>1. Identity[database.admitted[k]] = Identity[LatestOf(database)]
    BY <1>2, RowFits DEF IdentityFits
  <2> QED
    BY <1>4, <1>5, <1>6, <2>1 DEF IdentityFits
<1> HIDE DEF e
<1>9. DatabaseInv(e)
  BY <1>1, <1>4, <1>5, <1>7, <1>8, ConnectionStep
<1> QED
  BY <1>9 DEF e

\* A job is created for the relays of the latest configuration.
LEMMA CreateJobStep ==
    ASSUME LifecycleInv, NEW j \in Jobs, NEW source \in {"signer_response", "discovery_handler"},
           CreateJob(j, source)
    PROVE  DatabaseInv(database')
<1> DEFINE c == host.configuration
           job == [status |-> "pending", source |-> source, configuration |-> c]
           e == database'
<1>1. /\ DatabaseInv(database) /\ database \in Databases /\ database.bindings # <<>>
      /\ LatestOf(database) = c /\ c \in Configurations
  BY BoundLatest DEF LifecycleInv, DatabaseInv, HostInv, CreateJob, InTransaction
<1>2. job \in JobRows /\ job.configuration = c
  BY <1>1 DEF JobRows
<1>3. e = [database EXCEPT !.jobs = [database.jobs EXCEPT ![j] = job]]
  BY DEF CreateJob
<1> HIDE DEF job
<1>4. /\ e \in Databases /\ e.bindings = database.bindings /\ e.birth = database.birth
      /\ e.connections = database.connections /\ e.approved = database.approved
      /\ e.admitted = database.admitted /\ e.jobs = [database.jobs EXCEPT ![j] = job]
  BY <1>1, <1>2, <1>3 DEF Databases
<1>5. e.jobs[j] = job /\ \A i \in Jobs \ {j} : e.jobs[i] = database.jobs[i]
  BY <1>1, <1>4 DEF Databases
<1>6. JobFits(e.jobs[j], LatestOf(e))
  BY <1>1, <1>2, <1>4, <1>5 DEF JobFits, Keeps, LatestOf
<1> HIDE DEF e, c
<1>7. DatabaseInv(e)
  BY <1>1, <1>4, <1>5, <1>6, JobStep
<1> QED
  BY <1>7 DEF e

LEMMA FinishJobStep ==
    ASSUME LifecycleInv, NEW j \in Jobs, FinishJob(j)
    PROVE  DatabaseInv(database')
<1> DEFINE job == [database.jobs[j] EXCEPT !.status = "terminal"]
           e == database'
<1>1. /\ DatabaseInv(database) /\ database \in Databases /\ database.bindings # <<>>
  BY BoundLatest DEF LifecycleInv, DatabaseInv, FinishJob, InTransaction
<1>2. job \in JobRows /\ job.status = "terminal"
  <2>1. database.jobs[j] \in JobRows /\ database.jobs[j].status = "pending"
    BY <1>1 DEF FinishJob, Databases
  <2>2. database.jobs[j] # NoJob
    BY <2>1 DEF NoJob
  <2> QED
    BY <2>1, <2>2 DEF JobRows
<1>3. e = [database EXCEPT !.jobs = [database.jobs EXCEPT ![j] = job]]
  BY DEF FinishJob
<1> HIDE DEF job
<1>4. /\ e \in Databases /\ e.bindings = database.bindings /\ e.birth = database.birth
      /\ e.connections = database.connections /\ e.approved = database.approved
      /\ e.admitted = database.admitted /\ e.jobs = [database.jobs EXCEPT ![j] = job]
  BY <1>1, <1>2, <1>3 DEF Databases
<1>5. e.jobs[j] = job /\ \A i \in Jobs \ {j} : e.jobs[i] = database.jobs[i]
  BY <1>1, <1>4 DEF Databases
<1>6. JobFits(e.jobs[j], LatestOf(e))
  BY <1>2, <1>5 DEF JobFits
<1> HIDE DEF e
<1>7. DatabaseInv(e)
  BY <1>1, <1>4, <1>5, <1>6, JobStep
<1> QED
  BY <1>7 DEF e

-----------------------------------------------------------------------------
(* The step, and the theorems.                                             *)

\* The host's part: whoever becomes a daemon is bound, and only the daemon
\* itself works on the database while it runs.
LEMMA HostStep ==
    ASSUME LifecycleInv, Next
    PROVE  HostInv'
<1> USE DEF HostInv
<1>1. HostInv
  BY DEF LifecycleInv
<1>2. ASSUME NEW c \in Configurations, Initialize(c) PROVE HostInv'
  BY <1>1, <1>2 DEF Initialize
<1>3. ASSUME NEW c \in Configurations, Open(c) PROVE HostInv'
  BY <1>1, <1>3 DEF Open
<1>4. ASSUME host' = NoHost PROVE HostInv'
  BY <1>4 DEF NoHost
<1>5. CASE Migrate
  BY <1>1, <1>5 DEF Migrate
<1>6. CASE BindOrVerify
  <2>1. CASE host' = NoHost
    BY <1>4, <2>1
  <2>2. CASE host' = [host EXCEPT !.mode = "open"]
    BY <1>1, <1>6, <2>2 DEF BindOrVerify
  <2> QED
    BY <1>6, <2>1, <2>2 DEF BindOrVerify
<1>7. CASE StartDaemon
  <2>1. CASE host' = NoHost
    BY <1>4, <2>1
  <2>2. CASE Bound(host.configuration) /\ host' = [host EXCEPT !.mode = "daemon"]
    <3>1. /\ host'.configuration = host.configuration /\ host'.mode = "daemon" /\ database' = database
          /\ host' \in [mode : {"none", "opening", "open", "daemon"},
                 configuration : Configurations \cup {NoConfiguration}, initializing : BOOLEAN]
          /\ host.configuration \in Configurations
      BY <1>1, <1>7, <2>2 DEF StartDaemon
    <3>2. Bound(host.configuration)'
      BY <2>2, <3>1 DEF Bound, latest
    <3> QED
      BY <3>1, <3>2
  <2> QED
    BY <1>7, <2>1, <2>2 DEF StartDaemon
<1>8. ASSUME host' = host, database'.bindings = database.bindings PROVE HostInv'
  BY <1>1, <1>8 DEF Bound, latest
<1>9. CASE Close \/ Crash \/ OfflineBackup \/ \E c \in Configurations : ApplyConfiguration(c)
  BY <1>4, <1>9 DEF Close, Crash, OfflineBackup, ApplyConfiguration
<1>10. CASE Backup
  BY <1>8, <1>10 DEF Backup
<1>11. CASE Restore
  BY <1>4, <1>11 DEF Restore
<1>12. database \in Databases
  BY DEF LifecycleInv, DatabaseInv
<1>13. ASSUME NEW k \in Connections, NEW row, SetRow(k, row) PROVE HostInv'
  BY <1>8, <1>12, <1>13 DEF SetRow, Databases
<1>14. ASSUME NEW k \in Connections, Dismiss(k) \/ Challenge(k) PROVE HostInv'
  BY <1>13, <1>14 DEF Dismiss, Challenge
<1>15. ASSUME NEW k \in Connections, NEW p, Connect(k, p) \/ Approve(k, p) PROVE HostInv'
  BY <1>8, <1>12, <1>15 DEF Connect, Approve, Databases
<1>16. ASSUME NEW j \in Jobs, FinishJob(j) \/ \E s \in {"signer_response", "discovery_handler"} : CreateJob(j, s)
       PROVE  HostInv'
  BY <1>8, <1>12, <1>16 DEF CreateJob, FinishJob, Databases
<1> QED
  BY <1>2, <1>3, <1>5, <1>6, <1>7, <1>9, <1>10, <1>11, <1>14, <1>15, <1>16 DEF Next

LEMMA DatabaseStep ==
    ASSUME LifecycleInv, Next
    PROVE  DatabaseInv(database')
<1>1. DatabaseInv(database) /\ DatabaseInv(snapshot) /\ database \in Databases
  BY DEF LifecycleInv, DatabaseInv
<1>2. ASSUME database' = database PROVE DatabaseInv(database')
  BY <1>1, <1>2
<1>3. ASSUME NEW v \in 0..SchemaVersion, database' = [database EXCEPT !.version = v]
      PROVE  DatabaseInv(database')
  BY <1>1, <1>3, VersionStep
<1>4. ASSUME NEW c \in Configurations, Initialize(c) PROVE DatabaseInv(database')
  BY <1>3, <1>4, LifecycleAssumption DEF Initialize
<1>5. CASE Migrate
  <2>1. database.version \in 0..SchemaVersion /\ database.version < SchemaVersion
    BY <1>1, <1>5 DEF Migrate, Databases
  <2>2. database.version + 1 \in 0..SchemaVersion
    BY <2>1, LifecycleAssumption
  <2>3. database' = [database EXCEPT !.version = database.version + 1]
    BY <1>5 DEF Migrate
  <2> QED
    BY <2>2, <2>3, <1>3
<1>6. CASE BindOrVerify
  BY <1>6, BindStep
<1>7. CASE Close \/ Crash \/ StartDaemon \/ Backup \/ OfflineBackup \/ \E c \in Configurations : Open(c)
  BY <1>2, <1>7 DEF Close, Crash, StartDaemon, Backup, OfflineBackup, Open
<1>8. CASE Restore
  <2>1. database' = snapshot
    BY <1>8 DEF Restore
  <2> QED
    BY <1>1, <2>1
<1> QED
  BY <1>4, <1>5, <1>6, <1>7, <1>8, ApplyStep, ConnectStep, ApproveStep, DismissStep,
     ChallengeStep, CreateJobStep, FinishJobStep DEF Next

LEMMA SnapshotStep ==
    ASSUME LifecycleInv, Next
    PROVE  snapshot' \in {snapshot, database}
<1>1. ASSUME NEW c \in Configurations, Initialize(c) \/ Open(c) \/ ApplyConfiguration(c)
      PROVE  snapshot' = snapshot
  BY <1>1 DEF Initialize, Open, ApplyConfiguration
<1>2. CASE Migrate \/ BindOrVerify \/ Close \/ Crash \/ StartDaemon \/ Restore
  BY <1>2 DEF Migrate, BindOrVerify, Close, Crash, StartDaemon, Restore
<1>3. CASE Backup \/ OfflineBackup
  BY <1>3 DEF Backup, OfflineBackup
<1>4. ASSUME NEW k \in Connections, NEW p, Connect(k, p) \/ Approve(k, p) PROVE snapshot' = snapshot
  BY <1>4 DEF Connect, Approve
<1>5. ASSUME NEW k \in Connections, Dismiss(k) \/ Challenge(k) PROVE snapshot' = snapshot
  BY <1>5 DEF Dismiss, Challenge, SetRow
<1>6. ASSUME NEW j \in Jobs, NEW s, CreateJob(j, s) \/ FinishJob(j) PROVE snapshot' = snapshot
  BY <1>6 DEF CreateJob, FinishJob
<1> QED
  BY <1>1, <1>2, <1>3, <1>4, <1>5, <1>6 DEF Next

LEMMA LifecycleStep == LifecycleInv /\ [Next]_vars => LifecycleInv'
<1> SUFFICES ASSUME LifecycleInv, [Next]_vars PROVE LifecycleInv'
  OBVIOUS
<1>1. CASE UNCHANGED vars
  <2>1. database' = database /\ snapshot' = snapshot /\ host' = host
    BY <1>1 DEF vars
  <2> QED
    BY <2>1 DEF LifecycleInv, HostInv, Bound, latest
<1>2. CASE Next
  <2>1. DatabaseInv(database') /\ HostInv'
    BY <1>2, DatabaseStep, HostStep
  <2>2. DatabaseInv(snapshot')
    BY <1>2, SnapshotStep DEF LifecycleInv
  <2> QED
    BY <2>1, <2>2 DEF LifecycleInv
<1> QED
  BY <1>1, <1>2

LEMMA LifecycleInvariant == Spec => []LifecycleInv
BY LifecycleInitial, LifecycleStep, PTL DEF Spec

\* However creation, migration, crashes, applies and restores follow each other,
\* a daemon runs under the latest binding and the history begins at the birth
\* record (bind_or_verify, require_expected_metadata).
THEOREM RunsUnderLatestCorrect == Spec => []RunsUnderLatest
<1>1. LifecycleInv => RunsUnderLatest
  BY DEF LifecycleInv, HostInv, DatabaseInv, RunsUnderLatest
<1> QED
  BY <1>1, LifecycleInvariant, PTL

\* Whatever a row is, it is a row of the latest configuration: unfinished work
\* keeps its relays, a session survives no narrowing that came after its grant,
\* and everything that waits belongs to the latest identities
\* (apply_configuration and the operations of the daemon between two applies).
THEOREM RowsFollowConfigurationCorrect == Spec => []RowsFollowConfiguration
<1>1. ASSUME NEW d, DatabaseInv(d) PROVE IsDatabase(d)
  <2>1. \A j \in Jobs : IsJob(d.jobs[j])
    BY <1>1 DEF DatabaseInv, Databases, JobRows, IsJob
  <2> QED
    BY <1>1, <2>1 DEF DatabaseInv, Databases, IsDatabase
<1>2. LifecycleInv => TypeOK
  BY <1>1 DEF LifecycleInv, HostInv, TypeOK
<1>3. database \in Databases => LatestOf(database) = latest
  BY DEF LatestOf, latest, Last
<1>4. LifecycleInv => TargetsStayConfigured
  BY <1>3 DEF LifecycleInv, DatabaseInv, JobFits, Keeps, TargetsStayConfigured, Unfinished
<1>5. LifecycleInv => NarrowingReachesSessions
  BY <1>3 DEF LifecycleInv, DatabaseInv, SessionFits, Unnarrowed, LatestOf,
              NarrowingReachesSessions, Row
<1>6. LifecycleInv => SessionsOfIdentity
  BY <1>3 DEF LifecycleInv, DatabaseInv, IdentityFits, SessionsOfIdentity, Row
<1>7. LifecycleInv => RowsFollowConfiguration
  BY <1>2, <1>4, <1>5, <1>6 DEF RowsFollowConfiguration
<1> QED
  BY <1>7, LifecycleInvariant, PTL

-----------------------------------------------------------------------------
(* The doctor.                                                             *)

\* The inventory: the clock is the last check and the only one not required.
LEMMA Inventory ==
    /\ DOMAIN CheckDefinitions = 1..13
    /\ \A i \in 1..13 : CheckDefinitions[i].id # "clock_skew" => CheckDefinitions[i].required = TRUE
    /\ \A i \in 1..13 : CheckDefinitions[i].id = "clock_skew" => CheckDefinitions[i].required = FALSE
    /\ CheckDefinitions[2].id = "writer_lock" /\ CheckDefinitions[6].id = "identity_binding"
    /\ CheckDefinitions[11].id = "required_relays"
<1>1. DOMAIN CheckDefinitions = 1..13
  BY DEF CheckDefinitions
<1>2. \A i \in 1..13 :
        \/ CheckDefinitions[i].id # "clock_skew" /\ CheckDefinitions[i].required = TRUE
        \/ CheckDefinitions[i].id = "clock_skew" /\ CheckDefinitions[i].required = FALSE
  <2> SUFFICES ASSUME NEW i \in 1..13
               PROVE  \/ CheckDefinitions[i].id # "clock_skew" /\ CheckDefinitions[i].required = TRUE
                      \/ CheckDefinitions[i].id = "clock_skew" /\ CheckDefinitions[i].required = FALSE
    OBVIOUS
  <2>1. i \in {1, 2, 3, 4, 5, 6, 7, 8, 9, 10, 11, 12, 13}
    OBVIOUS
  <2> QED
    BY <2>1 DEF CheckDefinitions, Check
<1>3. /\ CheckDefinitions[2].id = "writer_lock" /\ CheckDefinitions[6].id = "identity_binding"
      /\ CheckDefinitions[11].id = "required_relays"
  BY DEF CheckDefinitions, Check
<1> QED
  BY <1>1, <1>2, <1>3

\* The verdict: every required check passed.
LEMMA Verdict ==
    ASSUME NEW c, NEW failing, NEW late
    PROVE  /\ exit_code(run_myc_doctor(c, failing, late)) \in {0, 6}
           /\ exit_code(run_myc_doctor(c, failing, late)) = 0 <=>
                \A i \in 1..13 : CheckDefinitions[i].id # "clock_skew" =>
                    CheckStatus(CheckDefinitions[i], c, failing, late) = "pass"
<1> DEFINE results == [i \in DOMAIN CheckDefinitions |->
                           CheckStatus(CheckDefinitions[i], c, failing, late)]
<1>1. exit_code(run_myc_doctor(c, failing, late)) = 0 <=> aggregate_status(results) # "fail"
  BY DEF exit_code, run_myc_doctor
<1>2. aggregate_status(results) = "fail" <=>
        \E i \in DOMAIN results : CheckDefinitions[i].required /\ results[i] # "pass"
  BY DEF aggregate_status
<1>3. \A i \in 1..13 : CheckDefinitions[i].required <=> CheckDefinitions[i].id # "clock_skew"
  BY Inventory
<1>4. DOMAIN results = 1..13
      /\ \A i \in 1..13 : results[i] = CheckStatus(CheckDefinitions[i], c, failing, late)
  BY Inventory
<1> HIDE DEF results
<1>5. aggregate_status(results) = "fail" <=>
        \E i \in 1..13 : CheckDefinitions[i].id # "clock_skew"
                           /\ CheckStatus(CheckDefinitions[i], c, failing, late) # "pass"
  BY <1>2, <1>3, <1>4
<1>6. exit_code(run_myc_doctor(c, failing, late)) \in {0, 6}
  BY DEF exit_code
<1> QED
  BY <1>1, <1>5, <1>6

\* With nothing else wrong and nothing late but the clock, the verdict is that
\* of the inspection.
LEMMA VerdictOfInspection ==
    ASSUME NEW c, NEW late, late \subseteq {"clock_skew"}
    PROVE  exit_code(run_myc_doctor(c, {}, late)) = 0 <=> Inspects(c)
<1>1. ASSUME Inspects(c), NEW i \in 1..13, CheckDefinitions[i].id # "clock_skew"
      PROVE  CheckStatus(CheckDefinitions[i], c, {}, late) = "pass"
  <2>1. Probe(CheckDefinitions[i].id, c, {}) = "pass"
    BY <1>1 DEF Probe
  <2> QED
    BY <1>1, <2>1 DEF CheckStatus
<1>2. ASSUME ~Inspects(c)
      PROVE  CheckStatus(CheckDefinitions[2], c, {}, late) # "pass"
  <2>1. CheckDefinitions[2].id \in StateChecks /\ CheckDefinitions[2].id # "clock_skew"
    BY Inventory DEF StateChecks
  <2>2. Probe(CheckDefinitions[2].id, c, {}) = "fail"
    BY <1>2, <2>1 DEF Probe
  <2> QED
    BY <2>1, <2>2 DEF CheckStatus
<1>3. CheckDefinitions[2].id # "clock_skew" /\ 2 \in 1..13
  BY Inventory
<1> QED
  BY <1>1, <1>2, <1>3, Verdict

\* The doctor's verdict is what a writable open would find, after every sequence
\* of crashes, applies and restores (probe_state against bind_or_verify).
THEOREM DoctorPredictsStartCorrect == Spec => []DoctorPredictsStart
<1>1. ASSUME LifecycleInv, host = NoHost PROVE DoctorPredictsStart
  <2>1. database.birth \in Configurations \cup {NoConfiguration}
        /\ database.bindings \in Seq(Configurations)
        /\ (database.bindings # <<>> => database.bindings[1] = database.birth)
    BY <1>1 DEF LifecycleInv, DatabaseInv, Databases
  <2>2. database.bindings # <<>> => database.birth \in Configurations
    BY <2>1
  <2>3. ASSUME NEW c \in Configurations
        PROVE  exit_code(run_myc_doctor(c, {}, {})) = 0
                   <=> /\ database.version = SchemaVersion
                       /\ Accepts(c)
                       /\ database.birth = Birth(c) /\ database.bindings = BindingsWith(c)
    <3>1. exit_code(run_myc_doctor(c, {}, {})) = 0 <=> Inspects(c)
      BY VerdictOfInspection
    <3>2. CASE database.bindings = <<>>
      <4>1. ~Inspects(c)
        BY <3>2 DEF Inspects, Bound
      <4>2. BindingsWith(c) # <<>>
        BY <3>2 DEF BindingsWith, Seeded
      <4> QED
        BY <3>1, <3>2, <4>1, <4>2
    <3>3. CASE database.bindings # <<>>
      <4>1. BindingsWith(c) = database.bindings /\ Birth(c) = database.birth
            /\ database.birth # NoConfiguration
        BY <3>3, <2>2, LifecycleAssumption DEF BindingsWith, Birth
      <4>2. Accepts(c) <=> Bound(c)
        BY <3>3, <4>1 DEF Accepts, Bound, latest
      <4> QED
        BY <1>1, <3>1, <4>1, <4>2 DEF Inspects
    <3> QED
      BY <3>2, <3>3
  <2>4. ASSUME database.bindings # <<>>
        PROVE  /\ exit_code(run_myc_doctor(latest, {}, {"required_relays"})) = 6
               /\ exit_code(run_myc_doctor(latest, {"identity_binding"}, {})) = 6
               /\ database.version = SchemaVersion =>
                    exit_code(run_myc_doctor(latest, {}, {"clock_skew"})) = 0
    <3>1. CheckStatus(CheckDefinitions[11], latest, {}, {"required_relays"}) # "pass"
      BY Inventory DEF CheckStatus
    <3>2. CheckStatus(CheckDefinitions[6], latest, {"identity_binding"}, {}) # "pass"
      <4>1. Probe(CheckDefinitions[6].id, latest, {"identity_binding"}) = "fail"
        BY Inventory DEF Probe, StateChecks
      <4> QED
        BY <4>1 DEF CheckStatus
    <3>3. CheckDefinitions[11].id # "clock_skew" /\ CheckDefinitions[6].id # "clock_skew"
          /\ 11 \in 1..13 /\ 6 \in 1..13
      BY Inventory
    <3>4. exit_code(run_myc_doctor(latest, {}, {"required_relays"})) = 6
      BY <3>1, <3>3, Verdict
    <3>5. exit_code(run_myc_doctor(latest, {"identity_binding"}, {})) = 6
      BY <3>2, <3>3, Verdict
    <3>6. database.version = SchemaVersion => Inspects(latest)
      BY <1>1, <2>2, <2>4, LifecycleAssumption DEF Inspects, Bound
    <3>7. database.version = SchemaVersion =>
              exit_code(run_myc_doctor(latest, {}, {"clock_skew"})) = 0
      BY <3>6, VerdictOfInspection
    <3> QED
      BY <3>4, <3>5, <3>7
  <2> QED
    BY <2>3, <2>4 DEF DoctorPredictsStart
<1>2. LifecycleInv => DoctorPredictsStart
  BY <1>1 DEF DoctorPredictsStart
<1> QED
  BY <1>2, LifecycleInvariant, PTL

-----------------------------------------------------------------------------
(* The table of integer fields.                                            *)

Sane(field) ==
    /\ field.least \in Nat /\ field.most \in Nat /\ 1 <= field.least /\ field.least <= field.most
    /\ field.otherwise = Absent \/ (field.otherwise \in Nat /\ InRange(field, field.otherwise))

LEMMA ListenerSane == \A f \in DOMAIN ListenerFields : Sane(ListenerFields[f])
BY DEF ListenerFields, Field, Sane, InRange, Absent

LEMMA ServiceSane == \A f \in DOMAIN ServiceFields : Sane(ServiceFields[f])
BY DEF ServiceFields, Field, Sane, InRange, Absent

LEMMA ResourceSane == \A f \in DOMAIN ResourceFields : Sane(ResourceFields[f])
BY DEF ResourceFields, Field, Sane, InRange, Absent

LEMMA DocumentSane == \A f \in DOMAIN DocumentFields : Sane(DocumentFields[f])
BY DEF DocumentFields, Field, Sane, InRange, Absent

LEMMA FieldsSane == \A f \in DOMAIN Fields : Sane(Fields[f])
<1>1. DOMAIN Fields = UNION {DOMAIN ListenerFields, DOMAIN ServiceFields,
                             DOMAIN ResourceFields, DOMAIN DocumentFields}
  BY DEF Fields
<1>2. \A f \in DOMAIN Fields :
        Fields[f] = IF f \in DOMAIN ListenerFields THEN ListenerFields[f]
                    ELSE IF f \in DOMAIN ServiceFields THEN ServiceFields[f]
                    ELSE IF f \in DOMAIN ResourceFields THEN ResourceFields[f] ELSE DocumentFields[f]
  BY DEF Fields
<1> QED
  BY <1>1, <1>2, ListenerSane, ServiceSane, ResourceSane, DocumentSane

\* The fields that some constructor reads.
LEMMA FieldsRead ==
    /\ DOMAIN ListenerFields \subseteq DOMAIN Fields
    /\ {"audit", "request_dedup", "pending_lifetime", "authorized_lifetime",
        "required_acknowledgements", "max_attempts", "initial_backoff_ms", "maximum_backoff_ms",
        "attempt_deadline_ms", "outbox", "wire_bytes", "content_bytes", "tag_count",
        "tag_total_elements", "tag_element_bytes", "tag_total_bytes",
        "decrypted_plaintext_bytes"} \subseteq DOMAIN Fields
    /\ Fields["audit"] = Field(1, 31536000, Absent)
    /\ Fields["request_dedup"] = Field(1, 31536000, Absent)
    /\ Fields["pending_lifetime"] = Field(1, 86400, Absent)
    /\ Fields["authorized_lifetime"] = Field(1, 2592000, Absent)
    /\ Fields["required_acknowledgements"] = Field(1, 32, Absent)
    /\ Fields["max_attempts"] = Field(1, 32, 5)
    /\ Fields["initial_backoff_ms"] = Field(1, 30000, 250)
    /\ Fields["maximum_backoff_ms"] = Field(1, 300000, 30000)
    /\ Fields["attempt_deadline_ms"] = Field(1, 30000, 15000)
    /\ Fields["outbox"] = Field(1, 65536, 4096)
    /\ Fields["wire_bytes"] = Field(1, 524288, 262144)
<1>1. DOMAIN Fields = UNION {DOMAIN ListenerFields, DOMAIN ServiceFields,
                             DOMAIN ResourceFields, DOMAIN DocumentFields}
  BY DEF Fields
<1>2. \A f \in DOMAIN Fields :
        Fields[f] = IF f \in DOMAIN ListenerFields THEN ListenerFields[f]
                    ELSE IF f \in DOMAIN ServiceFields THEN ServiceFields[f]
                    ELSE IF f \in DOMAIN ResourceFields THEN ResourceFields[f] ELSE DocumentFields[f]
  BY DEF Fields
<1>3. /\ DOMAIN ListenerFields = {"header_count", "header_bytes", "response_body_utf8_bytes",
                                   "concurrent_connections", "request_deadline_ms", "idle_timeout_ms"}
  BY DEF ListenerFields
<1>4. /\ DOMAIN ServiceFields = {"shutdown_grace_ms", "busy_timeout_ms", "max_connections",
                                  "connect_deadline_ms", "max_attempts", "initial_backoff_ms",
                                  "maximum_backoff_ms", "attempt_deadline_ms"}
      /\ ServiceFields["max_attempts"] = Field(1, 32, 5)
      /\ ServiceFields["initial_backoff_ms"] = Field(1, 30000, 250)
      /\ ServiceFields["maximum_backoff_ms"] = Field(1, 300000, 30000)
      /\ ServiceFields["attempt_deadline_ms"] = Field(1, 30000, 15000)
  BY DEF ServiceFields
<1>5. /\ {"outbox", "wire_bytes", "content_bytes", "tag_count", "tag_total_elements",
          "tag_element_bytes", "tag_total_bytes", "decrypted_plaintext_bytes"}
            \subseteq DOMAIN ResourceFields
      /\ {"audit", "request_dedup", "pending_lifetime", "authorized_lifetime",
          "required_acknowledgements"} \cap DOMAIN ResourceFields = {}
      /\ ResourceFields["outbox"] = Field(1, 65536, 4096)
      /\ ResourceFields["wire_bytes"] = Field(1, 524288, 262144)
  BY DEF ResourceFields
<1>6. /\ DOMAIN DocumentFields = {"subscription_deadline_ms", "audit", "request_dedup",
                                   "pending_lifetime", "authorized_lifetime", "required_acknowledgements"}
      /\ DocumentFields["audit"] = Field(1, 31536000, Absent)
      /\ DocumentFields["request_dedup"] = Field(1, 31536000, Absent)
      /\ DocumentFields["pending_lifetime"] = Field(1, 86400, Absent)
      /\ DocumentFields["authorized_lifetime"] = Field(1, 2592000, Absent)
      /\ DocumentFields["required_acknowledgements"] = Field(1, 32, Absent)
  BY DEF DocumentFields
<1>7. /\ DOMAIN ListenerFields \subseteq DOMAIN Fields /\ DOMAIN ServiceFields \subseteq DOMAIN Fields
      /\ DOMAIN ResourceFields \subseteq DOMAIN Fields /\ DOMAIN DocumentFields \subseteq DOMAIN Fields
  BY <1>1
<1>8. /\ Fields["max_attempts"] = Field(1, 32, 5)
      /\ Fields["initial_backoff_ms"] = Field(1, 30000, 250)
      /\ Fields["maximum_backoff_ms"] = Field(1, 300000, 30000)
      /\ Fields["attempt_deadline_ms"] = Field(1, 30000, 15000)
  BY <1>2, <1>3, <1>4, <1>7
<1>9. /\ Fields["outbox"] = Field(1, 65536, 4096)
      /\ Fields["wire_bytes"] = Field(1, 524288, 262144)
  BY <1>2, <1>3, <1>4, <1>5, <1>7
<1>10. /\ Fields["audit"] = Field(1, 31536000, Absent)
       /\ Fields["request_dedup"] = Field(1, 31536000, Absent)
       /\ Fields["pending_lifetime"] = Field(1, 86400, Absent)
       /\ Fields["authorized_lifetime"] = Field(1, 2592000, Absent)
       /\ Fields["required_acknowledgements"] = Field(1, 32, Absent)
  BY <1>2, <1>3, <1>4, <1>5, <1>6, <1>7
<1> QED
  BY <1>4, <1>5, <1>6, <1>7, <1>8, <1>9, <1>10

-----------------------------------------------------------------------------
(* Every document the parser can be given, once its JSON has the right     *)
(* shape.                                                                  *)

\* The texts: the literals are strings, which the provers are not told.
Text ==
    STRING \cup
    {Lower, Digit, Underscore, Upper, "wss", "ws", "https", "http", "remote", "other", "loopback",
     "identity", "transport", "user", "discovery", "binding", "envelope_path", "socket_path",
     "credential_reference", "expected_public_key", "k1", "k2", "k3", "c1", "c2", "off_curve",
     "sign_event", "nip44_encrypt", "ping", "loopback_only", "public", "connection",
     "global_and_relay"}

Urls == [scheme : Text, host : Text, canonical : BOOLEAN, credentials : BOOLEAN]
Roles == {"transport", "user", "discovery"}
RelayRow == [id : Seq(Text), url : Urls, read : BOOLEAN, write : BOOLEAN, required : BOOLEAN]

Documents ==
    [profile : {"production", "repo_local"},
     numbers : [DOMAIN Fields -> Int],
     rates : [DOMAIN ExpectedScope ->
                [scope : Text, window : Int, max_attempts : Int, retention : Int,
                 maximum_tracked_subjects : Int]],
     relays : Seq(RelayRow),
     mode : {"all_required", "at_least_one_required", "required_quorum"},
     keys : [Roles -> Text], identityDiscovery : BOOLEAN,
     providers : [Roles -> [kind : {"local_signer", "encrypted_file"}, absolute : BOOLEAN,
                            request_deadline_ms : Int, request_max_bytes : Int, concurrency : Int]],
     trusted : SUBSET Text, denied : SUBSET Text,
     ceiling : SUBSET [name : Text, kind : Int], kinds : SUBSET Int,
     challenges : [enabled : BOOLEAN, url : Urls],
     operations : [enabled : BOOLEAN, port : Int, loopback : BOOLEAN, bind_policy : Text],
     discovery : [enabled : BOOLEAN, public : SUBSET Seq(Text), publish : SUBSET Seq(Text)]]

\* The defaults fill in integers and touch nothing else.
LEMMA DefaultsFill ==
    ASSUME NEW d \in Documents
    PROVE  LET n == apply_defaults(d) IN
           /\ n \in Documents
           /\ n.profile = d.profile /\ n.rates = d.rates /\ n.relays = d.relays /\ n.mode = d.mode
           /\ n.keys = d.keys /\ n.identityDiscovery = d.identityDiscovery /\ n.providers = d.providers
           /\ n.trusted = d.trusted /\ n.denied = d.denied /\ n.ceiling = d.ceiling /\ n.kinds = d.kinds
           /\ n.challenges = d.challenges /\ n.operations = d.operations /\ n.discovery = d.discovery
           /\ DOMAIN n.numbers = DOMAIN Fields
           /\ \A f \in DOMAIN Fields :
                 n.numbers[f] = IF Defaulted(d, f) THEN Fields[f].otherwise ELSE d.numbers[f]
           /\ \A f : Applies(n, f) <=> Applies(d, f)
<1> DEFINE numbers == [f \in DOMAIN Fields |->
                          IF Defaulted(d, f) THEN Fields[f].otherwise ELSE d.numbers[f]]
           n == apply_defaults(d)
<1>1. \A f \in DOMAIN Fields : Fields[f].otherwise \in Int
  BY FieldsSane DEF Sane, Absent
<1>2. \A f \in DOMAIN Fields : d.numbers[f] \in Int
  BY DEF Documents
<1>3. numbers \in [DOMAIN Fields -> Int]
  BY <1>1, <1>2
<1>4. n = [d EXCEPT !.numbers = numbers]
  BY DEF apply_defaults
<1>5. DOMAIN numbers = DOMAIN Fields /\ \A f \in DOMAIN Fields :
          numbers[f] = IF Defaulted(d, f) THEN Fields[f].otherwise ELSE d.numbers[f]
  OBVIOUS
<1> HIDE DEF numbers, n
<1>6. /\ n.numbers = numbers
      /\ n.profile = d.profile /\ n.rates = d.rates /\ n.relays = d.relays /\ n.mode = d.mode
      /\ n.keys = d.keys /\ n.identityDiscovery = d.identityDiscovery /\ n.providers = d.providers
      /\ n.trusted = d.trusted /\ n.denied = d.denied /\ n.ceiling = d.ceiling /\ n.kinds = d.kinds
      /\ n.challenges = d.challenges /\ n.operations = d.operations /\ n.discovery = d.discovery
  BY <1>4 DEF Documents
<1>7. n \in Documents
  BY <1>3, <1>4 DEF Documents
<1>8. \A f : Applies(n, f) <=> Applies(d, f)
  BY <1>6 DEF Applies
<1> QED
  BY <1>5, <1>6, <1>7, <1>8 DEF n

\* What an integer of a valid document is once the defaults are filled in.
LEMMA NumbersKnown ==
    ASSUME NEW d \in Documents, SchemaValid(d), NEW f \in DOMAIN Fields
    PROVE  LET n == apply_defaults(d) IN
           /\ Applies(d, f) => n.numbers[f] \in Nat /\ InRange(Fields[f], n.numbers[f])
           /\ ~Applies(d, f) => n.numbers[f] = Absent
           /\ d.numbers[f] # Absent => n.numbers[f] = d.numbers[f]
<1> DEFINE n == apply_defaults(d)
<1>1. /\ n.numbers[f] = IF Defaulted(d, f) THEN Fields[f].otherwise ELSE d.numbers[f]
      /\ d.numbers[f] \in Int
  BY DefaultsFill DEF Documents
<1>2. Sane(Fields[f])
  BY FieldsSane
<1>3. IF Applies(d, f)
      THEN \/ InRange(Fields[f], d.numbers[f])
           \/ Fields[f].otherwise # Absent /\ d.numbers[f] = Absent
      ELSE d.numbers[f] = Absent
  BY DEF SchemaValid
<1> HIDE DEF n
<1>4. ASSUME Applies(d, f) PROVE n.numbers[f] \in Nat /\ InRange(Fields[f], n.numbers[f])
  <2>1. CASE d.numbers[f] = Absent
    BY <1>1, <1>2, <1>3, <1>4, <2>1 DEF Sane, InRange, Defaulted, Absent
  <2>2. CASE d.numbers[f] # Absent
    BY <1>1, <1>2, <1>3, <1>4, <2>2 DEF Sane, InRange, Defaulted, Absent
  <2> QED
    BY <2>1, <2>2
<1>5. ~Applies(d, f) => n.numbers[f] = Absent
  BY <1>1, <1>3 DEF Defaulted
<1>6. d.numbers[f] # Absent => n.numbers[f] = d.numbers[f]
  BY <1>1 DEF Defaulted
<1> QED
  BY <1>4, <1>5, <1>6 DEF n

\* apply_defaults and the validations around it.
LEMMA DefaultsStay ==
    ASSUME NEW d \in Documents
    PROVE  DefaultsAreStable(d)
<1> DEFINE n == apply_defaults(d)
<1> SUFFICES ASSUME SchemaValid(d)
             PROVE  /\ SchemaValid(n) /\ apply_defaults(n) = n
                    /\ \A f \in DOMAIN Fields : d.numbers[f] # Absent => n.numbers[f] = d.numbers[f]
  BY DEF DefaultsAreStable
<1>1. /\ n \in Documents
      /\ n.rates = d.rates /\ n.relays = d.relays /\ n.mode = d.mode /\ n.providers = d.providers
      /\ n.ceiling = d.ceiling /\ n.kinds = d.kinds
      /\ n.challenges = d.challenges /\ n.operations = d.operations /\ n.discovery = d.discovery
      /\ DOMAIN n.numbers = DOMAIN Fields
      /\ \A f : Applies(n, f) <=> Applies(d, f)
  BY DefaultsFill
<1>2. \A f \in DOMAIN Fields :
        /\ Applies(d, f) => n.numbers[f] \in Nat /\ InRange(Fields[f], n.numbers[f])
        /\ ~Applies(d, f) => n.numbers[f] = Absent
        /\ d.numbers[f] # Absent => n.numbers[f] = d.numbers[f]
  BY NumbersKnown
<1> HIDE DEF n
<1>3. SchemaValid(n)
  BY <1>1, <1>2 DEF SchemaValid
<1>4. apply_defaults(n) = n
  <2>1. \A f \in DOMAIN Fields : ~Defaulted(n, f)
    BY <1>1, <1>2 DEF Defaulted, Absent
  <2>2. n.numbers \in [DOMAIN Fields -> Int]
    BY <1>1 DEF Documents
  <2>3. [f \in DOMAIN Fields |-> IF Defaulted(n, f) THEN Fields[f].otherwise ELSE n.numbers[f]] = n.numbers
    BY <2>1, <2>2
  <2>4. apply_defaults(n) = [n EXCEPT !.numbers = n.numbers]
    BY <2>3 DEF apply_defaults
  <2> QED
    BY <1>1, <2>4 DEF Documents
<1> QED
  BY <1>2, <1>3, <1>4

-----------------------------------------------------------------------------
(* The constructors, one by one, on what the parser accepted.              *)

Accepted(d, n) == d \in Documents /\ parse_myc_config_v1(d) /\ n = apply_defaults(d)

\* What acceptance says of the document the daemon reads.
LEMMA AcceptedFacts ==
    ASSUME NEW d, NEW n, Accepted(d, n)
    PROVE  /\ n \in Documents /\ SchemaValid(n) /\ validate_relationships(n)
           /\ n.challenges = d.challenges
           /\ \A f \in DOMAIN Fields :
                 Applies(n, f) => n.numbers[f] \in Nat /\ InRange(Fields[f], n.numbers[f])
<1>1. SchemaValid(d) /\ SchemaValid(n) /\ validate_relationships(n)
  BY DEF Accepted, parse_myc_config_v1
<1>2. n \in Documents /\ n.challenges = d.challenges /\ \A f : Applies(n, f) <=> Applies(d, f)
  BY DefaultsFill DEF Accepted
<1>3. \A f \in DOMAIN Fields : Applies(d, f) => n.numbers[f] \in Nat /\ InRange(Fields[f], n.numbers[f])
  BY <1>1, NumbersKnown DEF Accepted
<1> QED
  BY <1>1, <1>2, <1>3

\* The integers that are there in every document.
LEMMA AlwaysApplies ==
    ASSUME NEW n, NEW f \in {"audit", "request_dedup", "max_attempts", "initial_backoff_ms",
               "maximum_backoff_ms", "attempt_deadline_ms", "outbox", "wire_bytes", "content_bytes",
               "tag_count", "tag_total_elements", "tag_element_bytes", "tag_total_bytes",
               "decrypted_plaintext_bytes"}
    PROVE  Applies(n, f)
<1>1. DOMAIN ListenerFields = {"header_count", "header_bytes", "response_body_utf8_bytes",
                               "concurrent_connections", "request_deadline_ms", "idle_timeout_ms"}
  BY DEF ListenerFields
<1> QED
  BY <1>1 DEF Applies

LEMMA AcceptedNumbers ==
    ASSUME NEW d, NEW n, Accepted(d, n)
    PROVE  /\ \A f \in {"request_dedup", "initial_backoff_ms", "maximum_backoff_ms"} : n.numbers[f] \in Nat
           /\ UpTo(n.numbers["audit"], 31536000) /\ UpTo(n.numbers["request_dedup"], 31536000)
           /\ UpTo(n.numbers["max_attempts"], 32) /\ UpTo(n.numbers["initial_backoff_ms"], 30000)
           /\ UpTo(n.numbers["maximum_backoff_ms"], 300000)
           /\ UpTo(n.numbers["attempt_deadline_ms"], 30000)
           /\ UpTo(n.numbers["outbox"], 65536) /\ UpTo(n.numbers["wire_bytes"], 524288)
<1>1. \A f \in DOMAIN Fields :
        Applies(n, f) => n.numbers[f] \in Nat /\ InRange(Fields[f], n.numbers[f])
  BY AcceptedFacts
<1>2. /\ Applies(n, "audit") /\ Applies(n, "request_dedup") /\ Applies(n, "max_attempts")
      /\ Applies(n, "initial_backoff_ms") /\ Applies(n, "maximum_backoff_ms")
      /\ Applies(n, "attempt_deadline_ms") /\ Applies(n, "outbox") /\ Applies(n, "wire_bytes")
  BY AlwaysApplies
<1> QED
  BY <1>1, <1>2, FieldsRead, SMT DEF Field, InRange, UpTo

\* The integers that come with a challenge policy, a quorum or a listener.
LEMMA AcceptedVariants ==
    ASSUME NEW d, NEW n, Accepted(d, n)
    PROVE  /\ n.challenges.enabled => /\ n.numbers["pending_lifetime"] \in Nat
                                      /\ UpTo(n.numbers["pending_lifetime"], 86400)
                                      /\ UpTo(n.numbers["authorized_lifetime"], 2592000)
           /\ n.mode = "required_quorum" => UpTo(n.numbers["required_acknowledgements"], 32)
           /\ n.operations.enabled => \A f \in DOMAIN ListenerFields : n.numbers[f] \in Nat
<1>1. \A f \in DOMAIN Fields :
        Applies(n, f) => n.numbers[f] \in Nat /\ InRange(Fields[f], n.numbers[f])
  BY AcceptedFacts
<1>2. DOMAIN ListenerFields = {"header_count", "header_bytes", "response_body_utf8_bytes",
                               "concurrent_connections", "request_deadline_ms", "idle_timeout_ms"}
  BY DEF ListenerFields
<1>3. n.challenges.enabled => Applies(n, "pending_lifetime") /\ Applies(n, "authorized_lifetime")
  BY <1>2 DEF Applies
<1>4. n.mode = "required_quorum" => Applies(n, "required_acknowledgements")
  BY <1>2 DEF Applies
<1>5. n.operations.enabled => \A f \in DOMAIN ListenerFields : Applies(n, f)
  BY <1>2 DEF Applies
<1>6. n.challenges.enabled => /\ n.numbers["pending_lifetime"] \in Nat
                              /\ UpTo(n.numbers["pending_lifetime"], 86400)
                              /\ UpTo(n.numbers["authorized_lifetime"], 2592000)
  BY <1>1, <1>3, FieldsRead, SMT DEF Field, InRange, UpTo
<1>7. n.mode = "required_quorum" => UpTo(n.numbers["required_acknowledgements"], 32)
  BY <1>1, <1>4, FieldsRead, SMT DEF Field, InRange, UpTo
<1>8. n.operations.enabled => \A f \in DOMAIN ListenerFields : n.numbers[f] \in Nat
  BY <1>1, <1>5, FieldsRead
<1> QED
  BY <1>6, <1>7, <1>8

LEMMA AcceptedLimits ==
    ASSUME NEW d, NEW n, Accepted(d, n)
    PROVE  admission_limits(n)
<1> SUFFICES ASSUME NEW f \in {"wire_bytes", "content_bytes", "tag_count", "tag_total_elements",
                        "tag_element_bytes", "tag_total_bytes", "decrypted_plaintext_bytes"}
             PROVE  n.numbers[f] > 0
  BY DEF admission_limits
<1>1. f \in DOMAIN Fields /\ Applies(n, f)
  BY FieldsRead, AlwaysApplies
<1>2. n.numbers[f] \in Nat /\ InRange(Fields[f], n.numbers[f])
  BY <1>1, AcceptedFacts
<1>3. Sane(Fields[f])
  BY <1>1, FieldsSane
<1> QED
  BY <1>2, <1>3 DEF Sane, InRange

\* The identifiers of the schema's pattern satisfy both constructors.
LEMMA IdentifiersAccepted ==
    ASSUME NEW s \in Seq(Text), IdPattern(s)
    PROVE  rate_relay_id(s) /\ delivery_relay_id(s)
<1>1. Len(s) \in Nat /\ DOMAIN s = 1..Len(s) /\ Len(s) # 0
  BY DEF IdPattern
<1>2. UpTo(Len(s), 64) /\ s[1] = Lower
  BY <1>1 DEF IdPattern, UpTo
<1>3. \A i \in DOMAIN s : s[i] \in {Lower, Digit, Underscore}
  BY DEF IdPattern
<1>4. s[Len(s)] \in {Lower, Digit}
  <2>1. Len(s) \in DOMAIN s /\ ~(Len(s) < Len(s))
    BY <1>1
  <2> QED
    BY <2>1 DEF IdPattern
<1>5. \A i \in DOMAIN s : i < Len(s) => ~(s[i] = Underscore /\ s[i + 1] = Underscore)
  BY DEF IdPattern, Lower, Digit, Underscore
<1>6. \A i \in 1..(Len(s) - 1) : i \in DOMAIN s /\ i < Len(s)
  BY <1>1
<1>7. rate_relay_id(s)
  BY <1>2, <1>3, <1>4, <1>5 DEF rate_relay_id
<1>8. delivery_relay_id(s)
  BY <1>2, <1>3, <1>4, <1>5, <1>6 DEF delivery_relay_id
<1> QED
  BY <1>7, <1>8

LEMMA AcceptedRelays ==
    ASSUME NEW d, NEW n, Accepted(d, n)
    PROVE  /\ n.relays \in Seq(RelayRow) /\ UpTo(Len(n.relays), 32) /\ DOMAIN n.relays = 1..Len(n.relays)
           /\ \A i \in DOMAIN n.relays :
                 /\ n.relays[i] \in RelayRow
                 /\ rate_relay_id(n.relays[i].id) /\ delivery_relay_id(n.relays[i].id)
                 /\ canonical_relay_url(n.relays[i].url, n.profile)
                 /\ n.relays[i].read \/ n.relays[i].write
                 /\ TransportOf(n, i) # "none"
           /\ \A i, j \in DOMAIN n.relays :
                 i # j => n.relays[i].id # n.relays[j].id /\ n.relays[i].url # n.relays[j].url
           /\ With(n.relays, "required") \intersect With(n.relays, "read") # {}
           /\ With(n.relays, "required") \intersect With(n.relays, "write") # {}
<1>1. n \in Documents /\ SchemaValid(n) /\ validate_relays(n)
  BY AcceptedFacts DEF validate_relationships
<1>2. /\ n.relays \in Seq(RelayRow) /\ n.profile \in {"production", "repo_local"}
      /\ UpTo(Len(n.relays), 32) /\ DOMAIN n.relays = 1..Len(n.relays)
  BY <1>1 DEF Documents, SchemaValid
<1>3. \A i \in DOMAIN n.relays : n.relays[i] \in RelayRow
  BY <1>2
<1>4. \A i \in DOMAIN n.relays : rate_relay_id(n.relays[i].id) /\ delivery_relay_id(n.relays[i].id)
  BY <1>1, <1>3, IdentifiersAccepted DEF SchemaValid, RelayRow
<1>5. \A i \in DOMAIN n.relays :
         canonical_relay_url(n.relays[i].url, n.profile) /\ (n.relays[i].read \/ n.relays[i].write)
  BY <1>1 DEF validate_relays
<1>6. \A i \in DOMAIN n.relays : TransportOf(n, i) # "none"
  BY <1>2, <1>5 DEF canonical_relay_url, TransportOf
<1>7. \A i, j \in DOMAIN n.relays :
         i # j => n.relays[i].id # n.relays[j].id /\ n.relays[i].url # n.relays[j].url
  BY <1>1 DEF validate_relays
<1>8. /\ With(n.relays, "required") \intersect With(n.relays, "read") # {}
      /\ With(n.relays, "required") \intersect With(n.relays, "write") # {}
  BY <1>1 DEF validate_relays
<1> QED
  BY <1>2, <1>3, <1>4, <1>5, <1>6, <1>7, <1>8

LEMMA AcceptedGovernance ==
    ASSUME NEW d, NEW n, Accepted(d, n)
    PROVE  governance_policies(n)
<1>1. n \in Documents /\ SchemaValid(n) /\ validate_rate_limits(n)
  BY AcceptedFacts DEF validate_relationships
<1>2. ASSUME NEW c \in DOMAIN n.rates PROVE rate_limit_policy(n.rates[c])
  <2>1. DOMAIN RateFields = {"window", "max_attempts", "retention", "maximum_tracked_subjects"}
    BY DEF RateFields
  <2>2. /\ InRange(RateFields["window"], n.rates[c]["window"])
        /\ InRange(RateFields["max_attempts"], n.rates[c]["max_attempts"])
        /\ InRange(RateFields["retention"], n.rates[c]["retention"])
        /\ InRange(RateFields["maximum_tracked_subjects"], n.rates[c]["maximum_tracked_subjects"])
    BY <1>1, <2>1 DEF SchemaValid
  <2>3. n.rates[c] \in [scope : Text, window : Int, max_attempts : Int, retention : Int,
                        maximum_tracked_subjects : Int]
    BY <1>1 DEF Documents
  <2>4. n.rates[c].retention >= n.rates[c].window
    BY <1>1 DEF validate_rate_limits
  <2> QED
    BY <2>2, <2>3, <2>4, SMT DEF RateFields, Field, InRange, UpTo, rate_limit_policy
<1>3. n.relays # <<>>
  BY AcceptedRelays DEF UpTo
<1>4. \A i \in DOMAIN n.relays : rate_relay_id(n.relays[i].id)
  BY AcceptedRelays
<1> QED
  BY <1>2, <1>3, <1>4, AcceptedNumbers DEF governance_policies

LEMMA AcceptedConnections ==
    ASSUME NEW d, NEW n, Accepted(d, n)
    PROVE  connection_policies(n)
            <=> (d.challenges.enabled => d.challenges.url.canonical /\ ~d.challenges.url.credentials)
<1>1. /\ n \in Documents /\ SchemaValid(n) /\ n.challenges = d.challenges
      /\ validate_client_policy(n) /\ validate_challenges(n)
  BY AcceptedFacts DEF validate_relationships
<1>2. /\ \A key \in n.trusted \cup n.denied : valid_nostr_public_key(key)
      /\ n.trusted \intersect n.denied = {}
  BY <1>1 DEF validate_client_policy
<1>3. permission_set(n.ceiling)
  <2>1. Cardinality(n.ceiling) <= 64
    BY <1>1, SMT DEF SchemaValid, UpTo
  <2>2. \A p \in n.ceiling : p.name = "sign_event" => p.kind <= MaxKind
    BY <1>1 DEF validate_client_policy, SignedKinds
  <2> QED
    BY <2>1, <2>2 DEF permission_set
<1>4. n.challenges.enabled => n.numbers["pending_lifetime"] > 0 /\ n.numbers["authorized_lifetime"] >= n.numbers["pending_lifetime"]
  BY <1>1, AcceptedVariants, SMT DEF validate_challenges, UpTo
<1>5. n.numbers["request_dedup"] > 0
  BY AcceptedNumbers, SMT DEF UpTo
<1>6. n.challenges.enabled =>
        (challenge_url(n.challenges.url) <=> d.challenges.url.canonical /\ ~d.challenges.url.credentials)
  BY <1>1 DEF SchemaValid, challenge_url
<1> QED
  BY <1>1, <1>2, <1>3, <1>4, <1>5, <1>6 DEF connection_policies

LEMMA AcceptedDelivery ==
    ASSUME NEW d, NEW n, Accepted(d, n)
    PROVE  delivery_policies(n)
<1> DEFINE W == WriteTargets(n)
           Q == WriteTargets(n) \intersect With(n.relays, "required")
           acknowledgements == CASE n.mode = "at_least_one_required" -> 1
                                 [] n.mode = "all_required" -> Cardinality(Q)
                                 [] n.mode = "required_quorum" -> n.numbers["required_acknowledgements"]
<1>1. n \in Documents /\ validate_transport(n)
  BY AcceptedFacts DEF validate_relationships
<1>2. W \subseteq DOMAIN n.relays /\ Q \subseteq W /\ Q # {}
  BY AcceptedRelays DEF WriteTargets, With
<1>3. IsFiniteSet(DOMAIN n.relays) /\ Cardinality(DOMAIN n.relays) = Len(n.relays)
  <2>1. n.relays \in Seq(RelayRow) /\ DOMAIN n.relays = 1..Len(n.relays)
    BY AcceptedRelays
  <2>2. Len(n.relays) \in Nat
    BY <2>1
  <2> DEFINE len == Len(n.relays)
  <2> HIDE DEF len
  <2>3. IsFiniteSet(1..len) /\ Cardinality(1..len) = len
    <3>1. len \in Nat
      BY <2>2 DEF len
    <3>2. IsFiniteSet(1..len) /\ Cardinality(1..len) = IF 1 > len THEN 0 ELSE len - 1 + 1
      BY <3>1, FS_Interval, SMT
    <3> QED
      BY <3>1, <3>2, SMT
  <2> QED
    BY <2>1, <2>3, SMT DEF len
<1>4. /\ IsFiniteSet(W) /\ Cardinality(W) <= Len(n.relays) /\ IsFiniteSet(Q)
      /\ Cardinality(Q) <= Cardinality(W) /\ Cardinality(W) \in Nat /\ Cardinality(Q) \in Nat
      /\ Cardinality(Q) # 0
  <2> HIDE DEF W, Q
  <2>1. IsFiniteSet(W) /\ Cardinality(W) <= Len(n.relays)
    BY <1>2, <1>3, FS_Subset
  <2>2. IsFiniteSet(Q) /\ Cardinality(Q) <= Cardinality(W)
    BY <1>2, <2>1, FS_Subset
  <2> QED
    BY <1>2, <2>1, <2>2, FS_CardinalityType, FS_EmptySet
<1>5. UpTo(Cardinality(W), 32)
  <2>1. Len(n.relays) \in Nat /\ Len(n.relays) <= 32
    BY AcceptedRelays DEF UpTo
  <2> QED
    BY <1>4, <2>1 DEF UpTo
<1>6. n.mode \in {"all_required", "at_least_one_required", "required_quorum"}
  BY <1>1 DEF Documents
<1>7. n.mode = "required_quorum" => n.numbers["required_acknowledgements"] <= Cardinality(Q)
  <2>1. Q = With(n.relays, "required") \intersect With(n.relays, "write")
    BY DEF WriteTargets
  <2> QED
    BY <1>1, <2>1 DEF validate_transport
<1> HIDE DEF Q
<1>8. acknowledgements # 0 /\ acknowledgements <= Cardinality(Q)
  BY <1>4, <1>6, <1>7, AcceptedVariants, SMT DEF UpTo
<1>9. n.numbers["initial_backoff_ms"] <= n.numbers["maximum_backoff_ms"]
  BY <1>1 DEF validate_transport
<1>10. /\ UpTo(n.numbers["max_attempts"], 32) /\ n.numbers["initial_backoff_ms"] # 0
       /\ n.numbers["maximum_backoff_ms"] <= 300000
       /\ UpTo(n.numbers["attempt_deadline_ms"], 30000) /\ UpTo(n.numbers["outbox"], 65536)
  BY AcceptedNumbers, SMT DEF UpTo
<1>11. /\ \A i \in W : delivery_relay_id(n.relays[i].id)
       /\ \A i, j \in W : i # j => n.relays[i].id # n.relays[j].id
  BY <1>2, AcceptedRelays
<1> HIDE DEF acknowledgements
<1>12. delivery_policies(n) <=>
        /\ \A i \in W : delivery_relay_id(n.relays[i].id)
        /\ UpTo(Cardinality(W), 32)
        /\ \A i, j \in W : i # j => n.relays[i].id # n.relays[j].id
        /\ acknowledgements # 0 /\ acknowledgements <= Cardinality(Q)
        /\ UpTo(n.numbers["max_attempts"], 32)
        /\ n.numbers["initial_backoff_ms"] # 0
        /\ n.numbers["initial_backoff_ms"] <= n.numbers["maximum_backoff_ms"]
        /\ n.numbers["maximum_backoff_ms"] <= 300000
        /\ UpTo(n.numbers["attempt_deadline_ms"], 30000)
        /\ UpTo(n.numbers["outbox"], 65536)
  BY SMT DEF delivery_policies, Q, acknowledgements
<1> QED
  BY <1>5, <1>8, <1>9, <1>10, <1>11, <1>12, SMT

LEMMA AcceptedAdapters ==
    ASSUME NEW d, NEW n, Accepted(d, n)
    PROVE  /\ discovery_policies(n) /\ ingress_adapter(n) /\ delivery_adapter(n)
           /\ listener_config(n) /\ admission_limits(n)
<1>1. n \in Documents /\ SchemaValid(n) /\ validate_discovery(n) /\ validate_operations(n)
  BY AcceptedFacts DEF validate_relationships
<1>2. discovery_policies(n)
  BY <1>1, AcceptedNumbers DEF SchemaValid, validate_discovery, Named, discovery_policies, ExpectedDiscovery
<1>3. ingress_adapter(n)
  <2>1. PICK i \in DOMAIN n.relays : i \in With(n.relays, "required") /\ i \in With(n.relays, "read")
    BY AcceptedRelays DEF With
  <2>2. n.relays[i].required
    BY <2>1 DEF With
  <2>3. With(n.relays, "read") \subseteq DOMAIN n.relays
    BY DEF With
  <2> QED
    BY <2>1, <2>2, <2>3, AcceptedRelays DEF ingress_adapter, IngressGroups
<1>4. delivery_adapter(n)
  BY AcceptedRelays DEF delivery_adapter, UpTo
<1>5. listener_config(n)
  BY <1>1, AcceptedVariants DEF validate_operations, listener_config
<1>6. admission_limits(n)
  BY AcceptedLimits
<1> QED
  BY <1>2, <1>3, <1>4, <1>5, <1>6

LEMMA AcceptedConstruct ==
    ASSUME NEW d \in Documents
    PROVE  ConstructsAccepted(d)
<1> DEFINE n == apply_defaults(d)
<1> SUFFICES ASSUME parse_myc_config_v1(d)
             PROVE  Constructs(n) <=> (d.challenges.enabled =>
                        d.challenges.url.canonical /\ ~d.challenges.url.credentials)
  BY DEF ConstructsAccepted
<1>1. Accepted(d, n)
  BY DEF Accepted
<1> HIDE DEF n
<1> QED
  BY <1>1, AcceptedGovernance, AcceptedConnections, AcceptedDelivery, AcceptedAdapters DEF Constructs

-----------------------------------------------------------------------------
(* The effective document.                                                 *)

\* A path whose text is not shown.
Hides(path) ==
    \/ EndsWith(path, {"envelope_path", "socket_path", "credential_reference", "expected_public_key"})
    \/ path = <<"operations", "listen">>
    \/ path[1] = "relays" /\ EndsWith(path, {"id", "url"})
    \/ path = <<"policy", "challenges", "url">> \/ path \in ProfilePaths
    \/ path \in CountedPaths

\* A leaf that may be shown: its text is no secret or its path hides it.
Showable(leaf) == leaf.text \in PrivateTexts => Hides(leaf.path)

LEMMA ShowableHidden ==
    ASSUME NEW leaf, Showable(leaf)
    PROVE  redacted_value(leaf.path, leaf.text) \notin PrivateTexts
<1>1. "redacted" \notin PrivateTexts /\ "count" \notin PrivateTexts
  BY DEF PrivateTexts
<1> QED
  BY <1>1 DEF Showable, Hides, redacted_value

LEMMA ArraysShowable ==
    ASSUME NEW path, NEW values, NEW text, text \in PrivateTexts => Hides(path)
    PROVE  \A leaf \in ArrayLeaf(path, values, text) : Showable(leaf)
BY DEF ArrayLeaf, Leaf, Showable

LEMMA ShortPaths ==
    ASSUME NEW S, NEW a \in S
    PROVE  <<a>> \in Seq(S) /\ Len(<<a>>) = 1 /\ <<a>>[1] = a
OBVIOUS

LEMMA RolePaths ==
    ASSUME NEW S, NEW a \in S, NEW b \in S, NEW c \in S
    PROVE  <<a, b>> \in Seq(S) /\ <<a, b, c>> \in Seq(S)
OBVIOUS

LEMMA ProvidersShowable ==
    ASSUME NEW path \in Seq(Text), NEW p
    PROVE  \A leaf \in ProviderLeaves(path, p) : Showable(leaf)
<1>1. ASSUME NEW name \in Text PROVE (path \o <<name>>)[Len(path \o <<name>>)] = name
  <2>1. <<name>> \in Seq(Text) /\ Len(<<name>>) = 1 /\ <<name>>[1] = name
    BY ShortPaths, Zenon
  <2>5. Len(path) \in Nat
    OBVIOUS
  <2> DEFINE last == <<name>>
  <2> HIDE DEF last
  <2>2. Len(path \o last) = Len(path) + 1
    BY <2>1, <2>5, ConcatProperties DEF last
  <2>3. (path \o last)[Len(path) + 1] = last[Len(path) + 1 - Len(path)]
    <3>1. Len(path) + 1 \in 1..(Len(path) + Len(last)) /\ ~(Len(path) + 1 <= Len(path))
      BY <2>1, <2>5 DEF last
    <3> QED
      BY <2>1, <2>5, <3>1, ConcatProperties DEF last
  <2>4. Len(path) + 1 - Len(path) = 1
    BY <2>5
  <2> QED
    BY <2>1, <2>2, <2>3, <2>4 DEF last
<1>2. \A name \in {"envelope_path", "socket_path", "credential_reference", "expected_public_key"} :
          Hides(path \o <<name>>)
  BY <1>1 DEF Hides, EndsWith, Text
<1>3. "number" \notin PrivateTexts
  BY DEF PrivateTexts
<1>4. /\ \A name \in {"envelope_path", "socket_path", "credential_reference", "expected_public_key"} :
            \A text : Showable(Leaf(path \o <<name>>, text))
      /\ Showable(Leaf(path \o <<"concurrency">>, "number"))
  BY <1>2, <1>3 DEF Leaf, Showable
<1> QED
  BY <1>4 DEF ProviderLeaves

LEMMA LeavesShowable ==
    ASSUME NEW d \in Documents
    PROVE  \A leaf \in flatten_value(d) : Showable(leaf)
<1>1. "number" \notin PrivateTexts /\ "flag" \notin PrivateTexts /\ "permission" \notin PrivateTexts
  BY DEF PrivateTexts
<1>2. \A f : Showable(Leaf(<<"numbers", f>>, "number"))
  BY <1>1 DEF Leaf, Showable
<1>3. /\ Showable(Leaf(<<"relays", "item", "id">>, "relay_id"))
      /\ Showable(Leaf(<<"relays", "item", "url">>, "url"))
      /\ Showable(Leaf(<<"relays", "item", "required">>, "flag"))
  <2>1. Hides(<<"relays", "item", "id">>) /\ Hides(<<"relays", "item", "url">>)
    BY DEF Hides, EndsWith
  <2> QED
    BY <1>1, <2>1 DEF Leaf, Showable
<1>4. \A r \in RoleKeys(d) : \A leaf \in ProviderLeaves(RolePath[r], d.providers[r]) : Showable(leaf)
  <2>1. \A r \in RoleKeys(d) : RolePath[r] \in Seq(Text)
    <3>1. RoleKeys(d) \subseteq Roles
      BY DEF RoleKeys, Documents
    <3>2. /\ RolePath["transport"] = <<"identity", "transport">> /\ RolePath["user"] = <<"identity", "user">>
          /\ RolePath["discovery"] = <<"identity", "discovery", "binding">>
      BY DEF RolePath
    <3>3. /\ <<"identity", "transport">> \in Seq(Text) /\ <<"identity", "user">> \in Seq(Text)
          /\ <<"identity", "discovery", "binding">> \in Seq(Text)
      <4>1. /\ "identity" \in Text /\ "transport" \in Text /\ "user" \in Text
            /\ "discovery" \in Text /\ "binding" \in Text
        BY DEF Text
      <4> QED
        BY <4>1, RolePaths, Zenon
    <3> QED
      BY <3>1, <3>2, <3>3 DEF Roles
  <2> QED
    BY <2>1, ProvidersShowable
<1>5. /\ \A leaf \in ArrayLeaf(<<"policy", "trusted_clients">>, d.trusted, "public_key") : Showable(leaf)
      /\ \A leaf \in ArrayLeaf(<<"policy", "denied_clients">>, d.denied, "public_key") : Showable(leaf)
      /\ \A leaf \in ArrayLeaf(<<"discovery", "public_relay_ids">>, d.discovery.public, "relay_id") :
            Showable(leaf)
      /\ \A leaf \in ArrayLeaf(<<"discovery", "publish_relay_ids">>, d.discovery.publish, "relay_id") :
            Showable(leaf)
  <2>1. /\ Hides(<<"policy", "trusted_clients">>) /\ Hides(<<"policy", "denied_clients">>)
        /\ Hides(<<"discovery", "public_relay_ids">>) /\ Hides(<<"discovery", "publish_relay_ids">>)
    BY DEF Hides, CountedPaths
  <2> QED
    BY <2>1, ArraysShowable
<1>6. /\ \A leaf \in ArrayLeaf(<<"policy", "permission_ceiling">>, d.ceiling, "permission") : Showable(leaf)
      /\ \A leaf \in ArrayLeaf(<<"policy", "allowed_sign_event_kinds">>, d.kinds, "number") : Showable(leaf)
  BY <1>1, ArraysShowable
<1>7. /\ Showable(Leaf(<<"policy", "challenges", "url">>, "url"))
      /\ Showable(Leaf(<<"operations", "listen">>, "address"))
      /\ Showable(Leaf(<<"discovery", "domain">>, "profile"))
      /\ Showable(Leaf(<<"discovery", "nostrconnect_url_template">>, "profile"))
      /\ Showable(Leaf(<<"discovery", "metadata", "name">>, "profile"))
  BY DEF Leaf, Showable, Hides, ProfilePaths
<1> SUFFICES ASSUME NEW leaf \in flatten_value(d)
             PROVE  Showable(leaf)
  OBVIOUS
<1>8. \/ leaf \in {Leaf(<<"numbers", f>>, "number") : f \in {f \in DOMAIN Fields : d.numbers[f] # Absent}}
      \/ leaf \in {Leaf(<<"relays", "item", "id">>, "relay_id"), Leaf(<<"relays", "item", "url">>, "url"),
                   Leaf(<<"relays", "item", "required">>, "flag")}
      \/ leaf \in UNION {ProviderLeaves(RolePath[r], d.providers[r]) : r \in RoleKeys(d)}
      \/ leaf \in ArrayLeaf(<<"policy", "trusted_clients">>, d.trusted, "public_key")
      \/ leaf \in ArrayLeaf(<<"policy", "denied_clients">>, d.denied, "public_key")
      \/ leaf \in ArrayLeaf(<<"policy", "permission_ceiling">>, d.ceiling, "permission")
      \/ leaf \in ArrayLeaf(<<"policy", "allowed_sign_event_kinds">>, d.kinds, "number")
      \/ leaf = Leaf(<<"policy", "challenges", "url">>, "url")
      \/ leaf = Leaf(<<"operations", "listen">>, "address")
      \/ leaf \in {Leaf(<<"discovery", "domain">>, "profile"),
                   Leaf(<<"discovery", "nostrconnect_url_template">>, "profile"),
                   Leaf(<<"discovery", "metadata", "name">>, "profile")}
      \/ leaf \in ArrayLeaf(<<"discovery", "public_relay_ids">>, d.discovery.public, "relay_id")
      \/ leaf \in ArrayLeaf(<<"discovery", "publish_relay_ids">>, d.discovery.publish, "relay_id")
  BY ZenonT(60) DEF flatten_value
<1>9. CASE leaf \in UNION {ProviderLeaves(RolePath[r], d.providers[r]) : r \in RoleKeys(d)}
  BY <1>4, <1>9
<1>10. CASE leaf \in {Leaf(<<"numbers", f>>, "number") : f \in {f \in DOMAIN Fields : d.numbers[f] # Absent}}
  BY <1>2, <1>10
<1> QED
  BY <1>3, <1>5, <1>6, <1>7, <1>8, <1>9, <1>10, Zenon

LEMMA EffectiveShows ==
    ASSUME NEW d \in Documents
    PROVE  EffectiveIsHonest(d)
<1> DEFINE n == apply_defaults(d)
           shown == build_effective(d)
           Source(path) == IF path[1] = "numbers" /\ Fields[path[2]].otherwise # Absent
                              /\ d.numbers[path[2]] = Absent
                           THEN "default" ELSE "document"
           Shown(leaf) == [path |-> leaf.path, shown |-> redacted_value(leaf.path, leaf.text),
                           source |-> Source(leaf.path)]
<1>1. n \in Documents /\ \A f \in DOMAIN Fields :
          n.numbers[f] = IF Defaulted(d, f) THEN Fields[f].otherwise ELSE d.numbers[f]
  BY DefaultsFill
<1>2. shown = {Shown(leaf) : leaf \in flatten_value(n)}
  BY DEF build_effective
<1> HIDE DEF n, shown
<1>3. ASSUME NEW field \in shown PROVE field.shown \notin PrivateTexts
  <2>1. PICK leaf \in flatten_value(n) : field = Shown(leaf)
    BY <1>2
  <2>2. field.shown = redacted_value(leaf.path, leaf.text)
    BY <2>1
  <2> QED
    BY <1>1, <2>2, LeavesShowable, ShowableHidden
<1>4. ASSUME NEW f \in DOMAIN Fields, n.numbers[f] # Absent
      PROVE  \E field \in shown :
                 /\ field.path = <<"numbers", f>>
                 /\ (field.source = "document") <=> (d.numbers[f] # Absent)
  <2> DEFINE leaf == Leaf(<<"numbers", f>>, "number")
  <2>1. leaf \in flatten_value(n)
    BY <1>4 DEF flatten_value
  <2>2. leaf.path = <<"numbers", f>>
    BY DEF Leaf
  <2>3. Shown(leaf) \in shown /\ Shown(leaf).path = leaf.path /\ Shown(leaf).source = Source(leaf.path)
    <3> HIDE DEF leaf
    <3> QED
      BY <1>2, <2>1
  <2>4. (Source(<<"numbers", f>>) = "document") <=> (d.numbers[f] # Absent)
    <3>1. d.numbers[f] = Absent => Fields[f].otherwise # Absent
      BY <1>1, <1>4
    <3> QED
      BY <3>1
  <2> QED
    BY <2>2, <2>3, <2>4
<1> QED
  BY <1>3, <1>4 DEF EffectiveIsHonest, n, shown

-----------------------------------------------------------------------------
(* The documents the run is given are among them.                          *)

LEMMA PairsAreSequences ==
    ASSUME NEW S, NEW a \in S, NEW b \in S
    PROVE  <<a>> \in Seq(S) /\ <<a, b>> \in Seq(S)
OBVIOUS

LEMMA RelayRowsKnown ==
    /\ \A scheme, place \in Text, c, p \in BOOLEAN : Url(scheme, place, c, p) \in Urls
    /\ RelayUrls \subseteq Urls /\ OddUrls \subseteq Urls
    /\ \A id \in Seq(Text), url \in Urls, r, w, q \in BOOLEAN : Relay(id, url, r, w, q) \in RelayRow
    /\ Main \in RelayRow
<1>1. \A scheme, place \in Text, c, p \in BOOLEAN : Url(scheme, place, c, p) \in Urls
  BY DEF Url, Urls
<1>2. /\ "wss" \in Text /\ "ws" \in Text /\ "https" \in Text /\ "http" \in Text
      /\ "remote" \in Text /\ "other" \in Text /\ "loopback" \in Text
  BY DEF Text
<1>3. RelayUrls \subseteq Urls
  BY <1>1, <1>2 DEF RelayUrls
<1>4. OddUrls \subseteq Urls
  BY <1>1, <1>2 DEF OddUrls
<1>5. \A id \in Seq(Text), url \in Urls, r, w, q \in BOOLEAN : Relay(id, url, r, w, q) \in RelayRow
  BY DEF Relay, RelayRow
<1>6. Main \in RelayRow
  <2>1. Lower \in Text
    BY DEF Text
  <2>2. <<Lower>> \in Seq(Text)
    BY <2>1, PairsAreSequences
  <2>3. Url("wss", "remote", TRUE, FALSE) \in Urls
    BY <1>1, <1>2
  <2> QED
    BY <1>5, <2>2, <2>3 DEF Main
<1> QED
  BY <1>1, <1>3, <1>4, <1>5, <1>6

LEMMA ProvidersKnown ==
    ASSUME NEW kind \in {"local_signer", "encrypted_file"}, NEW a \in BOOLEAN,
           NEW x \in Int, NEW y \in Int, NEW z \in Int
    PROVE  Provider(kind, a, x, y, z) \in
              [kind : {"local_signer", "encrypted_file"}, absolute : BOOLEAN,
               request_deadline_ms : Int, request_max_bytes : Int, concurrency : Int]
BY DEF Provider

LEMMA RatesKnown ==
    ASSUME NEW s \in Text, NEW w \in Int, NEW m \in Int, NEW r \in Int, NEW t \in Int
    PROVE  [scope |-> s, window |-> w, max_attempts |-> m, retention |-> r,
            maximum_tracked_subjects |-> t]
             \in [scope : Text, window : Int, max_attempts : Int, retention : Int,
                  maximum_tracked_subjects : Int]
OBVIOUS

LEMMA KeysKnown ==
    ASSUME NEW a \in Text, NEW b \in Text, NEW c \in Text
    PROVE  [transport |-> a, user |-> b, discovery |-> c] \in [Roles -> Text]
BY DEF Roles

LEMMA BaseKnown == Base \in Documents
<1>1. Base.numbers \in [DOMAIN Fields -> Int]
  BY DEF Base, Absent
<1>2. Base.rates \in [DOMAIN ExpectedScope ->
                [scope : Text, window : Int, max_attempts : Int, retention : Int,
                 maximum_tracked_subjects : Int]]
  <2>1. \A c \in DOMAIN ExpectedScope : ExpectedScope[c] \in Text
    BY DEF ExpectedScope, Text
  <2> QED
    BY <2>1, RatesKnown DEF Base
<1>3. Base.relays \in Seq(RelayRow)
  BY PairsAreSequences, RelayRowsKnown DEF Base
<1>4. Base.keys \in [Roles -> Text]
  <2>1. "k1" \in Text /\ "k2" \in Text /\ "k3" \in Text
    BY DEF Text
  <2> QED
    BY <2>1, KeysKnown DEF Base
<1>5. Base.providers \in [Roles -> [kind : {"local_signer", "encrypted_file"}, absolute : BOOLEAN,
                            request_deadline_ms : Int, request_max_bytes : Int, concurrency : Int]]
  <2>1. Base.providers = [r \in Roles |-> Provider("encrypted_file", TRUE, 0, 0, 0)]
    BY DEF Base, Roles
  <2>2. Provider("encrypted_file", TRUE, 0, 0, 0) \in
          [kind : {"local_signer", "encrypted_file"}, absolute : BOOLEAN,
           request_deadline_ms : Int, request_max_bytes : Int, concurrency : Int]
    BY DEF Provider
  <2> QED
    BY <2>1, <2>2
<1>6. /\ Base.trusted \in SUBSET Text /\ Base.denied \in SUBSET Text
      /\ Base.ceiling \in SUBSET [name : Text, kind : Int] /\ Base.kinds \in SUBSET Int
  BY DEF Base, Text
<1>7. Base.challenges \in [enabled : BOOLEAN, url : Urls]
  <2>1. Url("https", "remote", TRUE, FALSE) \in Urls
    BY RelayRowsKnown DEF Text
  <2> QED
    BY <2>1 DEF Base
<1>8. Base.operations \in [enabled : BOOLEAN, port : Int, loopback : BOOLEAN, bind_policy : Text]
  BY DEF Base, Text
<1>9. Base.discovery \in [enabled : BOOLEAN, public : SUBSET Seq(Text), publish : SUBSET Seq(Text)]
  BY DEF Base
<1>10. /\ Base.profile \in {"production", "repo_local"} /\ Base.identityDiscovery \in BOOLEAN
       /\ Base.mode \in {"all_required", "at_least_one_required", "required_quorum"}
  BY DEF Base
<1>11. Base = [profile |-> Base.profile, numbers |-> Base.numbers, rates |-> Base.rates,
               relays |-> Base.relays, mode |-> Base.mode, keys |-> Base.keys,
               identityDiscovery |-> Base.identityDiscovery, providers |-> Base.providers,
               trusted |-> Base.trusted, denied |-> Base.denied, ceiling |-> Base.ceiling,
               kinds |-> Base.kinds, challenges |-> Base.challenges, operations |-> Base.operations,
               discovery |-> Base.discovery]
  BY DEF Base
<1> QED
  BY <1>1, <1>2, <1>3, <1>4, <1>5, <1>6, <1>7, <1>8, <1>9, <1>10, <1>11 DEF Documents

LEMMA EdgesKnown ==
    /\ \A f \in DOMAIN Fields : Edges(f) \subseteq Int
    /\ \A f \in DOMAIN RateFields : Edge(f) \subseteq Int
<1>1. ASSUME NEW f \in DOMAIN Fields PROVE Edges(f) \subseteq Int
  <2>1. Fields[f].least \in Nat /\ Fields[f].most \in Nat
    BY FieldsSane DEF Sane
  <2> QED
    BY <2>1 DEF Edges, Absent
<1>2. ASSUME NEW f \in DOMAIN RateFields PROVE Edge(f) \subseteq Int
  <2>1. RateFields[f].least \in Nat /\ RateFields[f].most \in Nat
    BY DEF RateFields, Field
  <2> QED
    BY <2>1 DEF Edge
<1> QED
  BY <1>1, <1>2

LEMMA RelayDocumentsKnown == RelayDocuments \subseteq Documents
<1> DEFINE Modes == {[mode |-> "all_required", count |-> Absent], [mode |-> "required_quorum", count |-> 1],
               [mode |-> "at_least_one_required", count |-> Absent],
               [mode |-> "required_quorum", count |-> 2], [mode |-> "required_quorum", count |-> 0]}
           One == <<Lower>>
           Two == <<Lower, Digit>>
           Single(r) == <<r>>
           Pair(r, s) == <<r, s>>
           Paired == {Pair(r, s) : r \in RelayRows({One}), s \in RelayRows({Two})}
           Rows == {Single(r) : r \in RelayRows({One})} \cup {Pair(Main, s) : s \in RelayRows({One})} \cup
                   Paired
           Related(p, rs, q) == [Base EXCEPT !.profile = p, !.relays = rs, !.mode = q.mode,
                                             !.numbers["required_acknowledgements"] = q.count]
<1>1. RelayRows({One}) \subseteq RelayRow /\ RelayRows({Two}) \subseteq RelayRow
  <2>1. One \in Seq(Text) /\ Two \in Seq(Text)
    <3>1. Lower \in Text /\ Digit \in Text
      BY DEF Text
    <3> QED
      BY <3>1, PairsAreSequences
  <2>2. ASSUME NEW id \in Seq(Text) PROVE RelayRows({id}) \subseteq RelayRow
    BY RelayRowsKnown DEF RelayRows
  <2> QED
    BY <2>1, <2>2
<1>2. \A r, s \in RelayRow : Single(r) \in Seq(RelayRow) /\ Pair(r, s) \in Seq(RelayRow)
  BY PairsAreSequences
<1>3. \A q \in Modes : q.mode \in {"all_required", "at_least_one_required", "required_quorum"}
                       /\ q.count \in Int
  BY DEF Absent
<1>4. ASSUME NEW p \in {"production", "repo_local"}, NEW rs \in Seq(RelayRow), NEW q,
             q.mode \in {"all_required", "at_least_one_required", "required_quorum"}, q.count \in Int
      PROVE  Related(p, rs, q) \in Documents
  <2>1. "required_acknowledgements" \in DOMAIN Fields
    BY FieldsRead
  <2> QED
    BY <1>4, <2>1, BaseKnown DEF Documents
<1>5. RelayDocuments = {Related(p, rs, q) : p \in {"production", "repo_local"}, rs \in Rows, q \in Modes}
  BY DEF RelayDocuments
<1> HIDE DEF Modes, One, Two, Single, Pair, Paired, Related
<1>6. Rows \subseteq Seq(RelayRow)
  <2>1. Main \in RelayRow
    BY RelayRowsKnown
  <2>2. {Single(r) : r \in RelayRows({One})} \subseteq Seq(RelayRow)
    BY <1>1, <1>2
  <2>3. {Pair(Main, s) : s \in RelayRows({One})} \subseteq Seq(RelayRow)
    BY <1>1, <1>2, <2>1
  <2>4. Paired \subseteq Seq(RelayRow)
    <3> SUFFICES ASSUME NEW rs \in Paired PROVE rs \in Seq(RelayRow)
      OBVIOUS
    <3>1. PICK r \in RelayRows({One}), s \in RelayRows({Two}) : rs = Pair(r, s)
      BY DEF Paired
    <3>2. r \in RelayRow /\ s \in RelayRow
      BY <1>1
    <3> QED
      BY <1>2, <3>1, <3>2
  <2> QED
    BY <2>2, <2>3, <2>4
<1> HIDE DEF Rows
<1> QED
  BY <1>3, <1>4, <1>5, <1>6

LEMMA IdentifierDocumentsKnown == IdentifierDocuments \subseteq Documents
<1> DEFINE Renamed(id, url) == [Base EXCEPT !.relays = <<[Main EXCEPT !.id = id, !.url = url]>>]
           Moved(url) == [Base EXCEPT !.relays = <<[Main EXCEPT !.url = url]>>]
<1>1. ASSUME NEW row \in RelayRow PROVE [Base EXCEPT !.relays = <<row>>] \in Documents
  <2>1. <<row>> \in Seq(RelayRow)
    BY PairsAreSequences
  <2> QED
    BY <2>1, BaseKnown DEF Documents
<1>2. Identifiers \subseteq Seq(Text)
  <2>1. Characters \subseteq Text
    BY DEF Characters, Text
  <2>2. ASSUME NEW k \in 0..4, NEW s \in [1..k -> Characters] PROVE s \in Seq(Text)
    <3>1. k \in Nat /\ s \in [1..k -> Text]
      BY <2>1
    <3> QED
      BY <3>1, IsASeq
  <2>3. ASSUME NEW k \in {64, 65} PROVE [i \in 1..k |-> Lower] \in Seq(Text)
    <3>1. k \in Nat /\ [i \in 1..k |-> Lower] \in [1..k -> Text]
      BY DEF Text
    <3> QED
      BY <3>1, IsASeq
  <2> QED
    BY <2>2, <2>3 DEF Identifiers
<1>3. ASSUME NEW id \in Seq(Text), NEW url \in Urls PROVE Renamed(id, url) \in Documents
  <2>1. [Main EXCEPT !.id = id, !.url = url] \in RelayRow
    BY RelayRowsKnown DEF RelayRow
  <2> QED
    BY <1>1, <2>1
<1>4. ASSUME NEW url \in Urls PROVE Moved(url) \in Documents
  <2>1. [Main EXCEPT !.url = url] \in RelayRow
    BY RelayRowsKnown DEF RelayRow
  <2> QED
    BY <1>1, <2>1
<1>5. Main.url \in Urls /\ OddUrls \subseteq Urls
  BY RelayRowsKnown DEF RelayRow
<1>6. IdentifierDocuments = {Renamed(id, url) : id \in Identifiers, url \in {Main.url}} \cup
                            {Moved(url) : url \in OddUrls}
  BY DEF IdentifierDocuments
<1> HIDE DEF Renamed, Moved
<1> QED
  BY <1>2, <1>3, <1>4, <1>5, <1>6

LEMMA NumberDocumentsKnown == NumberDocuments \subseteq Documents
<1> DEFINE Listened(f, x, on) == [Base EXCEPT !.numbers[f] = x, !.operations.enabled = on]
           Backed(x, y) == [Base EXCEPT !.numbers["initial_backoff_ms"] = x,
                                        !.numbers["maximum_backoff_ms"] = y]
<1>1. ASSUME NEW f \in DOMAIN Fields, NEW x \in Int, NEW on \in BOOLEAN
      PROVE  Listened(f, x, on) \in Documents
  BY BaseKnown DEF Documents
<1>2. "initial_backoff_ms" \in DOMAIN Fields /\ "maximum_backoff_ms" \in DOMAIN Fields
  BY FieldsRead
<1>3. ASSUME NEW x \in Int, NEW y \in Int PROVE Backed(x, y) \in Documents
  BY <1>2, BaseKnown DEF Documents
<1>4. \A f \in DOMAIN Fields : Edges(f) \subseteq Int
  BY EdgesKnown
<1> DEFINE Listeners(f) == {Listened(f, x, on) : x \in Edges(f), on \in BOOLEAN}
           Backoffs == {Backed(x, y) : x \in Edges("initial_backoff_ms"), y \in Edges("maximum_backoff_ms")}
<1>5. NumberDocuments = (UNION {Listeners(f) : f \in DOMAIN Fields}) \cup Backoffs
  BY DEF NumberDocuments
<1> HIDE DEF Listened, Backed
<1>6. ASSUME NEW f \in DOMAIN Fields PROVE Listeners(f) \subseteq Documents
  <2>1. \A x \in Edges(f), on \in BOOLEAN : Listened(f, x, on) \in Documents
    BY <1>1, <1>4
  <2> QED
    BY <2>1
<1>7. Backoffs \subseteq Documents
  <2>1. \A x \in Edges("initial_backoff_ms"), y \in Edges("maximum_backoff_ms") : Backed(x, y) \in Documents
    BY <1>2, <1>3, <1>4
  <2> QED
    BY <2>1
<1> HIDE DEF Listeners, Backoffs
<1> QED
  BY <1>5, <1>6, <1>7, Zenon

LEMMA RateDocumentsKnown == RateDocuments \subseteq Documents
<1> DEFINE Rated(c, s, w, m, r, t) ==
             [Base EXCEPT !.rates[c] = [scope |-> s, window |-> w, max_attempts |-> m, retention |-> r,
                                        maximum_tracked_subjects |-> t]]
<1>1. ASSUME NEW c \in DOMAIN ExpectedScope, NEW s \in Text, NEW w \in Int, NEW m \in Int, NEW r \in Int,
             NEW t \in Int
      PROVE  Rated(c, s, w, m, r, t) \in Documents
  BY BaseKnown, RatesKnown DEF Documents
<1>2. /\ "connection_admission" \in DOMAIN ExpectedScope /\ "challenge_creation" \in DOMAIN ExpectedScope
      /\ "connection" \in Text /\ "global_and_relay" \in Text
  BY DEF ExpectedScope, Text
<1>3. /\ Edge("window") \subseteq Int /\ Edge("max_attempts") \subseteq Int
      /\ Edge("retention") \subseteq Int /\ Edge("maximum_tracked_subjects") \subseteq Int
  BY EdgesKnown DEF RateFields
<1>4. RateDocuments =
        {Rated(c, s, w, m, r, t) :
            c \in {"connection_admission", "challenge_creation"}, s \in {"connection", "global_and_relay"},
            w \in Edge("window"), m \in Edge("max_attempts"), r \in Edge("retention"),
            t \in Edge("maximum_tracked_subjects")}
  BY DEF RateDocuments
<1> HIDE DEF Rated
<1> QED
  BY <1>1, <1>2, <1>3, <1>4

LEMMA PolicyDocumentsKnown == PolicyDocuments \subseteq Documents
<1> DEFINE Clients(t, n) == [Base EXCEPT !.trusted = t, !.denied = n]
           Signed(ks, ns) == {[name |-> "sign_event", kind |-> k] : k \in ks} \cup
                             {[name |-> n, kind |-> 0] : n \in ns}
           Permitted(ks, ns, allowed) == [Base EXCEPT !.ceiling = Signed(ks, ns), !.kinds = allowed]
           Challenged(on, url, x, y) ==
             [Base EXCEPT !.challenges = [enabled |-> on, url |-> url],
                          !.numbers["pending_lifetime"] = x, !.numbers["authorized_lifetime"] = y]
<1>1. PolicyDocuments =
        {Clients(t, n) : t, n \in SUBSET {"c1", "c2", "off_curve"}} \cup
        {Permitted(ks, ns, allowed) : ks, allowed \in SUBSET {1, MaxKind, MaxKind + 1},
                                      ns \in SUBSET {"nip44_encrypt", "ping"}} \cup
        {Challenged(on, url, x, y) : on \in BOOLEAN, url \in OddUrls, x \in Edges("pending_lifetime"),
                                     y \in Edges("authorized_lifetime")}
  BY DEF PolicyDocuments
<1>2. ASSUME NEW t \in SUBSET {"c1", "c2", "off_curve"}, NEW n \in SUBSET {"c1", "c2", "off_curve"}
      PROVE  Clients(t, n) \in Documents
  <2>1. {"c1", "c2", "off_curve"} \subseteq Text
    BY DEF Text
  <2>2. t \in SUBSET Text /\ n \in SUBSET Text
    BY <2>1
  <2> QED
    BY <2>2, BaseKnown DEF Documents
<1>3. ASSUME NEW ks \in SUBSET {1, MaxKind, MaxKind + 1}, NEW allowed \in SUBSET {1, MaxKind, MaxKind + 1},
             NEW ns \in SUBSET {"nip44_encrypt", "ping"}
      PROVE  Permitted(ks, ns, allowed) \in Documents
  <2>1. {1, MaxKind, MaxKind + 1} \subseteq Int
    BY DEF MaxKind
  <2>2. ks \in SUBSET Int /\ allowed \in SUBSET Int
    BY <2>1
  <2>3. Signed(ks, ns) \in SUBSET [name : Text, kind : Int]
    <3>1. "sign_event" \in Text /\ \A n \in ns : n \in Text
      BY DEF Text
    <3>2. /\ \A k \in ks : [name |-> "sign_event", kind |-> k] \in [name : Text, kind : Int]
          /\ \A n \in ns : [name |-> n, kind |-> 0] \in [name : Text, kind : Int]
      BY <2>2, <3>1
    <3> QED
      BY <3>2
  <2> HIDE DEF Signed
  <2> QED
    BY <2>2, <2>3, BaseKnown DEF Documents
<1>4. ASSUME NEW on \in BOOLEAN, NEW url \in OddUrls, NEW x \in Edges("pending_lifetime"),
             NEW y \in Edges("authorized_lifetime")
      PROVE  Challenged(on, url, x, y) \in Documents
  <2>1. "pending_lifetime" \in DOMAIN Fields /\ "authorized_lifetime" \in DOMAIN Fields
    BY FieldsRead
  <2>2. x \in Int /\ y \in Int /\ url \in Urls
    BY <2>1, EdgesKnown, RelayRowsKnown
  <2> QED
    BY <2>1, <2>2, BaseKnown DEF Documents
<1> HIDE DEF Clients, Permitted, Challenged
<1>5. {Clients(t, n) : t, n \in SUBSET {"c1", "c2", "off_curve"}} \subseteq Documents
  BY <1>2
<1>6. {Permitted(ks, ns, allowed) : ks, allowed \in SUBSET {1, MaxKind, MaxKind + 1},
                                    ns \in SUBSET {"nip44_encrypt", "ping"}} \subseteq Documents
  BY <1>3
<1>7. {Challenged(on, url, x, y) : on \in BOOLEAN, url \in OddUrls, x \in Edges("pending_lifetime"),
                                   y \in Edges("authorized_lifetime")} \subseteq Documents
  BY <1>4
<1> QED
  BY <1>1, <1>5, <1>6, <1>7

LEMMA IdentityDocumentsKnown == IdentityDocuments \subseteq Documents
<1> DEFINE Kind == [kind : {"local_signer", "encrypted_file"}, absolute : BOOLEAN,
                    request_deadline_ms : Int, request_max_bytes : Int, concurrency : Int]
           Least == Provider("local_signer", TRUE, 1, 1, 1)
           Keys(a, b, c) == [transport |-> a, user |-> b, discovery |-> c]
           Entries == [enabled : BOOLEAN, public : SUBSET {<<Lower>>, <<Digit>>},
                       publish : SUBSET {<<Lower>>, <<Digit>>}]
           Second == [Main EXCEPT !.id = <<Lower, Lower>>, !.read = FALSE,
                                  !.url = Url("wss", "other", TRUE, FALSE)]
           Rows == {<<Main>>, <<Main, Second>>}
           Listens == [enabled : BOOLEAN, port : {0, 1}, loopback : BOOLEAN,
                       bind_policy : {"loopback_only", "public"}]
           Keyed(a, b, c, i, e, rs) == [Base EXCEPT !.keys = Keys(a, b, c), !.identityDiscovery = i,
                                                    !.discovery = e, !.relays = rs]
           Provided(p, q) == [Base EXCEPT !.providers["transport"] = p, !.providers["user"] = q]
           Listening(o, a) == [Base EXCEPT !.operations = o, !.providers["discovery"].absolute = a]
<1>1. IdentityDocuments =
        {Keyed(a, b, c, i, e, rs) :
            a \in {"k1", "off_curve"}, b \in {"k1", "k2"}, c \in {"k1", "k3", "off_curve"},
            i \in BOOLEAN, e \in Entries, rs \in Rows} \cup
        {Provided(p, q) : p \in Providers, q \in {Least}} \cup
        {Listening(o, a) : o \in Listens, a \in BOOLEAN}
  BY DEF IdentityDocuments
<1>2. ASSUME NEW a \in {"k1", "off_curve"}, NEW b \in {"k1", "k2"}, NEW c \in {"k1", "k3", "off_curve"},
             NEW i \in BOOLEAN, NEW e \in Entries, NEW rs \in Rows
      PROVE  Keyed(a, b, c, i, e, rs) \in Documents
  <2>1. Lower \in Text /\ Digit \in Text
    BY DEF Text
  <2>2. <<Lower>> \in Seq(Text) /\ <<Digit>> \in Seq(Text) /\ <<Lower, Lower>> \in Seq(Text)
    BY <2>1, PairsAreSequences
  <2>3. e \in [enabled : BOOLEAN, public : SUBSET Seq(Text), publish : SUBSET Seq(Text)]
    BY <2>2
  <2>4. Second \in RelayRow
    <3>1. Url("wss", "other", TRUE, FALSE) \in Urls
      BY RelayRowsKnown DEF Text
    <3> QED
      BY <2>2, <3>1, RelayRowsKnown DEF RelayRow
  <2>5. rs \in Seq(RelayRow)
    <3> HIDE DEF Second
    <3>1. Main \in RelayRow
      BY RelayRowsKnown
    <3>2. <<Main>> \in Seq(RelayRow) /\ <<Main, Second>> \in Seq(RelayRow)
      BY <2>4, <3>1, PairsAreSequences
    <3> QED
      BY <3>2, Zenon
  <2>6. Keys(a, b, c) \in [Roles -> Text]
    <3>1. a \in Text /\ b \in Text /\ c \in Text
      BY DEF Text
    <3> QED
      BY <3>1, KeysKnown
  <2> HIDE DEF Entries, Second, Rows, Keys
  <2> QED
    BY <2>3, <2>5, <2>6, BaseKnown DEF Documents
<1>3. ASSUME NEW p \in Providers, NEW q \in {Least}
      PROVE  Provided(p, q) \in Documents
  <2>1. Providers \subseteq Kind /\ Least \in Kind
    BY SMT DEF Providers, Provider
  <2>2. p \in Kind /\ q \in Kind
    BY <2>1
  <2> QED
    BY <2>2, BaseKnown DEF Documents, Roles
<1>4. ASSUME NEW o \in Listens, NEW a \in BOOLEAN PROVE Listening(o, a) \in Documents
  <2>1. o \in [enabled : BOOLEAN, port : Int, loopback : BOOLEAN, bind_policy : Text]
    BY DEF Text
  <2>2. Base.providers \in [Roles -> Kind]
    BY BaseKnown DEF Documents
  <2>3. [Base.providers EXCEPT !["discovery"].absolute = a] \in [Roles -> Kind]
    BY <2>2 DEF Roles
  <2>4. Listening(o, a) = [Base EXCEPT !.operations = o,
                              !.providers = [Base.providers EXCEPT !["discovery"].absolute = a]]
    BY BaseKnown DEF Documents
  <2> HIDE DEF Listening, Listens
  <2>5. ASSUME NEW ps \in [Roles -> Kind] PROVE [Base EXCEPT !.operations = o, !.providers = ps] \in Documents
    BY <2>1, BaseKnown DEF Documents
  <2> DEFINE changed == [Base.providers EXCEPT !["discovery"].absolute = a]
  <2> HIDE DEF changed, Kind
  <2>6. changed \in [Roles -> Kind] /\ Listening(o, a) = [Base EXCEPT !.operations = o, !.providers = changed]
    BY <2>3, <2>4, Zenon DEF changed
  <2> QED
    BY <2>5, <2>6
<1> DEFINE KeyedDocuments ==
             {Keyed(a, b, c, i, e, rs) :
                 a \in {"k1", "off_curve"}, b \in {"k1", "k2"}, c \in {"k1", "k3", "off_curve"},
                 i \in BOOLEAN, e \in Entries, rs \in Rows}
           ProvidedDocuments == {Provided(p, q) : p \in Providers, q \in {Least}}
           ListeningDocuments == {Listening(o, a) : o \in Listens, a \in BOOLEAN}
<1> HIDE DEF Keyed, Provided, Listening, Entries, Rows, Listens, Least
<1>5. KeyedDocuments \subseteq Documents
  BY <1>2
<1>6. ProvidedDocuments \subseteq Documents
  <2> SUFFICES ASSUME NEW d \in ProvidedDocuments PROVE d \in Documents
    OBVIOUS
  <2>1. PICK p \in Providers, q \in {Least} : d = Provided(p, q)
    OBVIOUS
  <2> QED
    BY <1>3, <2>1
<1>7. ListeningDocuments \subseteq Documents
  BY <1>4
<1>8. IdentityDocuments = KeyedDocuments \cup ProvidedDocuments \cup ListeningDocuments
  BY <1>1
<1> HIDE DEF KeyedDocuments, ProvidedDocuments, ListeningDocuments
<1> QED
  BY <1>5, <1>6, <1>7, <1>8

LEMMA SectionsKnown == \A i \in DOMAIN Sections : Sections[i] \subseteq Documents
BY RelayDocumentsKnown, IdentifierDocumentsKnown, NumberDocumentsKnown, RateDocumentsKnown,
   PolicyDocumentsKnown, IdentityDocumentsKnown DEF Sections

-----------------------------------------------------------------------------
(* The configuration document, for every document.                         *)

\* A document parse_myc_config_v1 accepts, whatever it says, is one every
\* constructor of the daemon accepts, but for a challenge URL that is not
\* canonical; its defaults are filled in once and contradict nothing; and the
\* effective document hides what is private and tells a default from a value
\* of the document (src/src/config_v1.rs, state_metadata.rs).
THEOREM EveryDocumentSound ==
    \A d \in Documents : ConstructsAccepted(d) /\ DefaultsAreStable(d) /\ EffectiveIsHonest(d)
BY AcceptedConstruct, DefaultsStay, EffectiveShows

\* The documents at the edges of each section, in every state of the database.
THEOREM DocumentsSoundCorrect == Spec => []DocumentsSound
<1>1. \A i \in DOMAIN Sections : \A d \in Sections[i] : d \in Documents
  BY SectionsKnown
<1>2. DocumentsSound
  BY <1>1, EveryDocumentSound DEF DocumentsSound, AcceptedStarts, DefaultsStable, EffectiveHonest
<1> QED
  BY <1>2, PTL
=============================================================================
