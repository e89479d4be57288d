--------------------------------- MODULE Hosts ---------------------------------
(***************************************************************************)
(* Which school a host name stands for (src/internal/tenant: HostResolver), *)
(* and the life of a school's own domain: asked for, verified against the  *)
(* DNS, in use, given back (DomainService), or set by the platform          *)
(* (Service.UpdateSchool).                                                 *)
(*                                                                         *)
(* A lookup takes the cached answer while it lives, or asks the database   *)
(* and stores what it answered, a school that is not there included.  The   *)
(* host of a school under the platform's domain is written as the school.  *)
(***************************************************************************)
EXTENDS Naturals

CONSTANTS
    Tenants,              \* the schools
    Domains, NoDomain,    \* names outside the platform's domain
    NoTenant, NoEntry,    \* answers of a lookup: no such school; nothing cached
    Lookups, Managers,    \* the requests that resolve, and those that change domains
    MaxEdits              \* bound on the changes made by the platform

Hosts == Tenants \cup Domains
NoNames == {NoDomain, NoTenant, NoEntry}

ASSUME HostsAssumption ==
    /\ Tenants \cap Domains = {}
    /\ NoNames \cap Hosts = {}
    /\ NoTenant # NoEntry
    /\ MaxEdits \in Nat

VARIABLES
    standing,             \* of each school: "none" before it is created
    custom, pending,      \* its domain in use, and the one that waits
    known,                \* the cache: school of each host, NoTenant, or NoEntry
    asking, askHost, answer,   \* each lookup
    managing, school, named,   \* each change: its step, school and domain
    dropping,             \* the hosts it has still to drop from the cache
    overtaken,            \* history: another change of its school's domains came between
    lagging,              \* history: entries nobody will drop
    edits

tenantVars == <<standing, custom, pending>>
lookupVars == <<asking, askHost, answer>>
managerVars == <<managing, school, named, dropping, overtaken>>
hostsVars == <<tenantVars, known, lookupVars, managerVars, lagging, edits>>

HostsTypeOK ==
    /\ standing \in [Tenants -> {"none", "active", "suspended"}]
    /\ custom \in [Tenants -> Domains \cup {NoDomain}]
    /\ pending \in [Tenants -> Domains \cup {NoDomain}]
    /\ known \in [Hosts -> Tenants \cup {NoTenant, NoEntry}]
    /\ asking \in [Lookups -> {"idle", "missed", "read"}]
    /\ askHost \in [Lookups -> Hosts \cup {NoDomain}]
    /\ answer \in [Lookups -> Tenants \cup {NoTenant}]
    /\ managing \in [Managers -> {"idle", "free", "resolving", "resolved", "clearing", "written"}]
    /\ school \in [Managers -> Tenants \cup {NoTenant}]
    /\ named \in [Managers -> Domains \cup {NoDomain}]
    /\ dropping \in [Managers -> SUBSET Domains]
    /\ overtaken \in SUBSET Managers
    /\ lagging \in SUBSET Hosts
    /\ edits \in Nat

HostsInit ==
    /\ standing \in [Tenants -> {"none", "active"}]
    /\ custom = [s \in Tenants |-> NoDomain]
    /\ pending = [s \in Tenants |-> NoDomain]
    /\ known = [h \in Hosts |-> NoEntry]
    /\ asking = [l \in Lookups |-> "idle"]
    /\ askHost = [l \in Lookups |-> NoDomain]
    /\ answer = [l \in Lookups |-> NoTenant]
    /\ managing = [m \in Managers |-> "idle"]
    /\ school = [m \in Managers |-> NoTenant]
    /\ named = [m \in Managers |-> NoDomain]
    /\ dropping = [m \in Managers |-> {}]
    /\ overtaken = {}
    /\ lagging = {}
    /\ edits = 0

-----------------------------------------------------------------------------
\* The statements of a lookup: the active school of the slug, or of the domain.
SchoolOf(h) ==
    LET found == {s \in Tenants : standing[s] = "active" /\ (s = h \/ custom[s] = h)}
    IN  IF found = {} THEN NoTenant ELSE CHOOSE s \in found : TRUE

\* Resolve finds nothing in the cache (what it finds there it answers as it is).
Resolve(l, h) ==
    /\ asking[l] = "idle" /\ known[h] = NoEntry
    /\ asking' = [asking EXCEPT ![l] = "missed"]
    /\ askHost' = [askHost EXCEPT ![l] = h]
    /\ UNCHANGED <<tenantVars, known, answer, managerVars, lagging, edits>>

\* A failed statement ends the request and stores nothing.
ReadSchool(l) ==
    /\ asking[l] = "missed"
    /\ \/ /\ asking' = [asking EXCEPT ![l] = "read"]
          /\ answer' = [answer EXCEPT ![l] = SchoolOf(askHost[l])]
          /\ UNCHANGED askHost
       \/ /\ asking' = [asking EXCEPT ![l] = "idle"]
          /\ askHost' = [askHost EXCEPT ![l] = NoDomain]
          /\ UNCHANGED answer
    /\ UNCHANGED <<tenantVars, known, managerVars, lagging, edits>>

\* storeCache, whatever happened since the statement.
StoreHost(l) ==
    LET h == askHost[l]
    IN  /\ asking[l] = "read"
        /\ asking' = [asking EXCEPT ![l] = "idle"]
        /\ askHost' = [askHost EXCEPT ![l] = NoDomain]
        /\ answer' = [answer EXCEPT ![l] = NoTenant]
        /\ known' = [known EXCEPT ![h] = answer[l]]
        /\ lagging' = IF answer[l] # SchoolOf(h) THEN lagging \cup {h} ELSE lagging \ {h}
        /\ UNCHANGED <<tenantVars, managerVars, edits>>

\* The life of an entry ends, 60 s after it was stored.
HostExpires(h) ==
    /\ known[h] # NoEntry
    /\ known' = [known EXCEPT ![h] = NoEntry]
    /\ lagging' = lagging \ {h}
    /\ UNCHANGED <<tenantVars, lookupVars, managerVars, edits>>

-----------------------------------------------------------------------------
\* The changes of school s under way which have read its domains.
Reading(s) == {m \in Managers : school[m] = s /\ managing[m] \in {"resolving", "resolved", "clearing"}}

\* DomainUsedByOtherSchool looks at both columns of the other schools.
DomainFree(m, s, d) ==
    /\ managing[m] = "idle" /\ standing[s] # "none"
    /\ \A t \in Tenants \ {s} : d \notin {custom[t], pending[t]}
    /\ managing' = [managing EXCEPT ![m] = "free"]
    /\ school' = [school EXCEPT ![m] = s]
    /\ named' = [named EXCEPT ![m] = d]
    /\ UNCHANGED <<tenantVars, known, lookupVars, dropping, overtaken, lagging, edits>>

\* The index on pending domains refuses one that another school waits for; one that
\* another school uses by now is not seen.  The cache is left alone.
SetPendingDomain(m) ==
    LET s == school[m]
    IN  /\ managing[m] = "free"
        /\ \/ /\ \A t \in Tenants \ {s} : pending[t] # named[m]
              /\ pending' = [pending EXCEPT ![s] = named[m]]
              /\ overtaken' = overtaken \cup Reading(s)
           \/ /\ \E t \in Tenants \ {s} : pending[t] = named[m]
              /\ UNCHANGED <<pending, overtaken>>
        /\ managing' = [managing EXCEPT ![m] = "idle"]
        /\ school' = [school EXCEPT ![m] = NoTenant]
        /\ named' = [named EXCEPT ![m] = NoDomain]
        /\ UNCHANGED <<standing, custom, known, lookupVars, dropping,
                       lagging, edits>>

\* Mutant: the domain that is verified is the one the status shows, and that is the
\* domain in use when there is one (statusFor).
ShownDomain(s) == IF custom[s] # NoDomain THEN custom[s] ELSE pending[s]

DomainToVerify(s) == pending[s]

\* VerifyDomain reads the school ...
ReadPending(m, s) ==
    /\ managing[m] = "idle" /\ standing[s] # "none" /\ pending[s] # NoDomain
    /\ managing' = [managing EXCEPT ![m] = "resolving"]
    /\ school' = [school EXCEPT ![m] = s]
    /\ named' = [named EXCEPT ![m] = DomainToVerify(s)]
    /\ UNCHANGED <<tenantVars, known, lookupVars, dropping, overtaken, lagging, edits>>

\* The change ends; nothing is left of it.
Done(m) ==
    /\ managing' = [managing EXCEPT ![m] = "idle"]
    /\ school' = [school EXCEPT ![m] = NoTenant]
    /\ named' = [named EXCEPT ![m] = NoDomain]
    /\ dropping' = [dropping EXCEPT ![m] = {}]
    /\ overtaken' = overtaken \ {m}

\* ... and asks the DNS where its domain points: to this server, or elsewhere.
LookupHost(m) ==
    /\ managing[m] = "resolving"
    /\ \/ /\ managing' = [managing EXCEPT ![m] = "resolved"]
          /\ UNCHANGED <<school, named, dropping, overtaken>>
       \/ Done(m)
    /\ UNCHANGED <<tenantVars, known, lookupVars, lagging, edits>>

\* The statement moves whatever is pending by now, nothing included; the index on
\* domains refuses one in use.  Dropped from the cache is the domain that was looked
\* up; the one that was in use before is not.
VerifyPendingDomain(m) ==
    LET s == school[m]
    IN  /\ managing[m] = "resolved"
        /\ \/ /\ pending[s] = NoDomain \/ \A t \in Tenants \ {s} : custom[t] # pending[s]
              /\ custom' = [custom EXCEPT ![s] = pending[s]]
              /\ pending' = [pending EXCEPT ![s] = NoDomain]
              /\ managing' = [managing EXCEPT ![m] = "written"]
              /\ dropping' = [dropping EXCEPT ![m] = {named[m]}]
              /\ overtaken' = (overtaken \cup Reading(s)) \ {m}
              /\ lagging' = lagging \cup
                     (({custom[s]} \cup (IF m \in overtaken THEN {pending[s]} ELSE {})) \ {NoDomain})
              /\ UNCHANGED <<school, named>>
           \/ /\ pending[s] # NoDomain /\ \E t \in Tenants \ {s} : custom[t] = pending[s]
              /\ Done(m)
              /\ UNCHANGED <<custom, pending, lagging>>
        /\ UNCHANGED <<standing, known, lookupVars, edits>>

\* DeleteDomain reads the school ...
ReadDomains(m, s) ==
    /\ managing[m] = "idle" /\ standing[s] # "none"
    /\ {custom[s], pending[s]} # {NoDomain}
    /\ managing' = [managing EXCEPT ![m] = "clearing"]
    /\ school' = [school EXCEPT ![m] = s]
    /\ dropping' = [dropping EXCEPT ![m] = {custom[s], pending[s]} \ {NoDomain}]
    /\ UNCHANGED <<tenantVars, known, lookupVars, named, overtaken, lagging, edits>>

\* ... and clears both columns.
ClearDomain(m) ==
    LET s == school[m]
    IN  /\ managing[m] = "clearing"
        /\ custom' = [custom EXCEPT ![s] = NoDomain]
        /\ pending' = [pending EXCEPT ![s] = NoDomain]
        /\ managing' = [managing EXCEPT ![m] = "written"]
        /\ overtaken' = (overtaken \cup Reading(s)) \ {m}
        /\ lagging' = IF m \in overtaken THEN lagging \cup ({custom[s]} \ {NoDomain}) ELSE lagging
        /\ UNCHANGED <<standing, known, lookupVars, school, named, dropping, edits>>

\* Mutant: the change does not drop what was cached.
KeepHost(h) == UNCHANGED <<known, lagging>>

\* Invalidate: the entry of the host goes.
DropHost(h) ==
    /\ known' = [known EXCEPT ![h] = NoEntry]
    /\ lagging' = lagging \ {h}

InvalidateHost(m, h) ==
    /\ managing[m] = "written" /\ h \in dropping[m]
    /\ DropHost(h)
    /\ \/ /\ dropping[m] # {h}
          /\ dropping' = [dropping EXCEPT ![m] = @ \ {h}]
          /\ UNCHANGED <<managing, school, named, overtaken>>
       \/ /\ dropping[m] = {h}
          /\ Done(m)
    /\ UNCHANGED <<tenantVars, lookupVars, edits>>

-----------------------------------------------------------------------------
\* CreateSchool: its host may be known as one without a school.
CreateSchool(s) ==
    /\ standing[s] = "none" /\ edits < MaxEdits
    /\ standing' = [standing EXCEPT ![s] = "active"]
    /\ lagging' = lagging \cup {s}
    /\ edits' = edits + 1
    /\ UNCHANGED <<custom, pending, known, lookupVars, managerVars>>

\* UpdateSchool sets the status of a school, its domain (which an index keeps to one
\* school), or both, in one statement; the cache is left alone.
UpdateSchool(s, v, d) ==
    /\ standing[s] # "none" /\ edits < MaxEdits
    /\ v \in {"active", "suspended"}
    /\ d # custom[s] => d \in Domains /\ \A t \in Tenants \ {s} : custom[t] # d
    /\ <<v, d>> # <<standing[s], custom[s]>>
    /\ standing' = [standing EXCEPT ![s] = v]
    /\ custom' = [custom EXCEPT ![s] = d]
    /\ overtaken' = IF d # custom[s] THEN overtaken \cup Reading(s) ELSE overtaken
    /\ lagging' = lagging \cup ({s, custom[s], d} \ {NoDomain})
    /\ edits' = edits + 1
    /\ UNCHANGED <<pending, known, lookupVars, managing, school, named, dropping>>

HostsNext ==
    \/ \E l \in Lookups :
         \/ \E h \in Hosts : Resolve(l, h)
         \/ ReadSchool(l) \/ StoreHost(l)
    \/ \E h \in Hosts : HostExpires(h)
    \/ \E m \in Managers :
         \/ \E s \in Tenants :
              \/ \E d \in Domains : DomainFree(m, s, d)
              \/ ReadPending(m, s) \/ ReadDomains(m, s)
         \/ SetPendingDomain(m) \/ LookupHost(m) \/ VerifyPendingDomain(m) \/ ClearDomain(m)
         \/ \E h \in Domains : InvalidateHost(m, h)
    \/ \E s \in Tenants :
         \/ CreateSchool(s)
         \/ \E v \in {"active", "suspended"}, d \in Domains \cup {NoDomain} : UpdateSchool(s, v, d)

HostsSpec == HostsInit /\ [][HostsNext]_hostsVars

-----------------------------------------------------------------------------
\* A cached answer the database would not give is explained: a change that will drop
\* it is about to, or it is one of those nobody drops.  These are the answers stored
\* after a change, those about a school the platform created or edited, the domain
\* that a verified one replaced, and the domains of a change that another overtook.
HostIsExplained ==
    \A h \in Hosts : known[h] \notin {NoEntry, SchoolOf(h)} =>
        \/ h \in lagging
        \/ \E m \in Managers : managing[m] = "written" /\ h \in dropping[m]

\* A verification puts in use the domain it looked up, unless another call changed
\* the domains of the school after it read them (VerifyDomain): then it may put in
\* use one that was not looked up, or take the domain in use away.
VerifiedIsInUse ==
    [][\A m \in Managers :
         managing[m] = "resolved" /\ managing'[m] = "written" =>
             custom'[school[m]] = named[m] \/ m \in overtaken]_hostsVars
=============================================================================
