----------------------------- MODULE UhmResolver ------------------------------
(***************************************************************************)
(* UhmResolver as the default resolver of a process, and what UhmServer    *)
(* does with it: a run makes a new one, with the expected domain names,    *)
(* and a stop empties it.                                                  *)
(*                                                                         *)
(* The application's thread adds records and resets; clients in threads of *)
(* their own look names up.  Nothing is locked, so a lookup is taken apart *)
(* into the visits of its loop.  An asynchronous one is answered by the    *)
(* call itself; only the answer is delivered later, by a GTask.            *)
(***************************************************************************)
EXTENDS Integers, Sequences

CONSTANTS
    Client,
    Object,     \* identities of UhmResolver objects
    Host,       \* names of A records
    Service,    \* names of SRV records
    Addr,       \* addresses an application adds to A records
    Family,     \* of each address: "ipv4", "ipv6" or, not parsed, "invalid"
    Local,      \* the addresses a server may listen on
    Target,     \* the targets of SRV records
    DomainNames,\* the lists an application gives as expected domain names
    Usage,      \* {"overlap"}: names are reset while clients look them up
    MaxRecords, \* bound on the records an application adds
    None        \* the NULL pointer

Flags == {"default", "ipv4", "ipv6"}

ASSUME ResolverAssumption ==
    /\ Local \subseteq Addr
    /\ Family \in [Addr -> {"ipv4", "ipv6", "invalid"}]
    /\ \A a \in Local : Family[a] # "invalid"
    /\ DomainNames \subseteq Seq(Host)
    /\ Usage \subseteq {"overlap"}
    /\ MaxRecords \in Nat
    /\ None \notin Client \cup Object \cup Host \cup Addr \cup {"nothing"}
    /\ "nothing" \notin Local
    /\ Host \cap Service = {}     \* what is looked up tells which records

VARIABLES
    resolver,         \* the resolver of the server, NULL when it is stopped
    address,          \* the address of the server, likewise
    default_resolver, \* g_resolver_get_default(); None for the system's own
    expected_domain_names,
    applying,         \* those apply_expected_domain_names() has yet to add
    fake_A,           \* fake_A[v]: the A records of resolver v, in order
    fake_SRV,         \* fake_SRV[v]: its SRV records
    lookup,           \* lookup[c]: the last lookup of client c
    aborted           \* "no", or where the process crashed

serverVars == <<resolver, address, default_resolver, expected_domain_names>>
recordVars == <<fake_A, fake_SRV>>
vars == <<serverVars, applying, recordVars, lookup, aborted>>

\* What a lookup gives: the addresses that parse, and the targets.  NULL stands
\* in the list for an address that does not parse, never the address itself.
Found == {a \in Addr : Family[a] # "invalid"} \cup Target \cup {None}

\* due: the address of the server, when the lookup began with the server up
\* and its name expected; "nothing", when it began with the server stopped.
\* None when neither holds, or no longer does.
Lookup == [step : {"none", "walking", "task", "done"},
           resolver : Object \cup {None},
           name : Host \cup Service \cup {None},
           flags : Flags,
           async : BOOLEAN,
           visited : Nat,       \* how many records its loop has visited
           found : Seq(Found),
           freed : BOOLEAN,     \* the list was freed under its loop
           cancelled : BOOLEAN,
           due : Local \cup {None, "nothing"}]
NoLookup == [step |-> "none", resolver |-> None, name |-> None,
             flags |-> "default", async |-> FALSE, visited |-> 0,
             found |-> <<>>, freed |-> FALSE, cancelled |-> FALSE,
             due |-> None]

A == [key : Host, addr : Addr]
SRV == [key : Service, srv : Target]

TypeOK ==
    /\ resolver \in Object \cup {None}
    /\ address \in Local \cup {None}
    /\ default_resolver \in Object \cup {None}
    /\ expected_domain_names \in Seq(Host)
    /\ applying \in Seq(Host)
    /\ fake_A \in [Object -> Seq(A)]
    /\ fake_SRV \in [Object -> Seq(SRV)]
    /\ lookup \in [Client -> Lookup]
    /\ aborted \in {"no", "find_fake", "fake_services_free"}

Init ==
    /\ resolver = None
    /\ address = None
    /\ default_resolver = None
    /\ expected_domain_names = <<>>
    /\ applying = <<>>
    /\ fake_A = [v \in Object |-> <<>>]
    /\ fake_SRV = [v \in Object |-> <<>>]
    /\ lookup = [c \in Client |-> NoLookup]
    /\ aborted = "no"

Abort(where) ==
    /\ aborted' = where
    /\ UNCHANGED <<serverVars, applying, recordVars, lookup>>

Elements(seq) == {seq[i] : i \in 1 .. Len(seq)}
Expected(n) == n \in Elements(expected_domain_names)
-------------------------------------------------------------------------------
(* The application's thread.                                               *)

Idle == aborted = "no" /\ applying = <<>>

\* When an application makes calls that reset the resolver.
Calm == "overlap" \in Usage \/ \A c \in Client : lookup[c].step # "walking"

\* The loop of a lookup holds on to a record of v.
Holds(c, v) ==
    lookup[c].step = "walking" /\ lookup[c].resolver = v /\ lookup[c].visited > 0

not_reset(v) == UNCHANGED <<recordVars, lookup>>

uhm_resolver_reset(v) ==
    /\ fake_A' = [fake_A EXCEPT ![v] = <<>>]
    /\ fake_SRV' = [fake_SRV EXCEPT ![v] = <<>>]
    /\ lookup' = [c \in Client |->
                     IF lookup[c].step = "walking" /\ lookup[c].resolver = v
                     THEN [lookup[c] EXCEPT !.freed = @ \/ Holds(c, v),
                                            !.due = None]
                     ELSE lookup[c]]

\* A new resolver is the default one before the names are added to it.
default_once(v) ==
    default_resolver' = IF default_resolver = None THEN v ELSE default_resolver
g_resolver_set_default(v) == default_resolver' = v

uhm_server_run ==
    /\ Idle
    /\ resolver = None
    /\ \E v \in Object \ ({default_resolver} \cup
                            {lookup[c].resolver : c \in Client}) :
          /\ resolver' = v
          /\ g_resolver_set_default(v)
          /\ fake_A' = [fake_A EXCEPT ![v] = <<>>]
          /\ fake_SRV' = [fake_SRV EXCEPT ![v] = <<>>]
    /\ \E a \in Local : address' = a
    /\ applying' = expected_domain_names
    /\ UNCHANGED <<expected_domain_names, lookup, aborted>>

\* From g_thread_join() on.
empties(v) == uhm_resolver_reset(v)
uhm_server_stop ==
    /\ Idle
    /\ Calm
    /\ resolver # None
    /\ empties(resolver)
    /\ resolver' = None
    /\ address' = None
    /\ UNCHANGED <<default_resolver, expected_domain_names, applying, aborted>>

uhm_server_set_expected_domain_names(names) ==
    /\ Idle
    /\ Calm
    /\ expected_domain_names' = names
    /\ IF resolver = None
       THEN UNCHANGED <<recordVars, lookup, applying>>
       ELSE /\ uhm_resolver_reset(resolver)
            /\ applying' = names
    /\ UNCHANGED <<resolver, address, default_resolver, aborted>>

\* The loop of apply_expected_domain_names().
apply_expected_domain_names ==
    /\ aborted = "no"
    /\ applying # <<>>
    /\ fake_A' = [fake_A EXCEPT ![resolver] =
                     Append(@, [key |-> Head(applying), addr |-> address])]
    /\ applying' = Tail(applying)
    /\ UNCHANGED <<serverVars, fake_SRV, lookup, aborted>>

Added(v) == Len(fake_A[v]) + Len(fake_SRV[v])

uhm_resolver_add_A(h, a) ==
    /\ Idle
    /\ resolver # None
    /\ Added(resolver) < MaxRecords
    /\ fake_A' = [fake_A EXCEPT ![resolver] = Append(@, [key |-> h, addr |-> a])]
    /\ UNCHANGED <<serverVars, applying, fake_SRV, lookup, aborted>>

uhm_resolver_add_SRV(s, t) ==
    /\ Idle
    /\ resolver # None
    /\ Added(resolver) < MaxRecords
    /\ fake_SRV' = [fake_SRV EXCEPT ![resolver] = Append(@, [key |-> s, srv |-> t])]
    /\ UNCHANGED <<serverVars, applying, fake_A, lookup, aborted>>
-------------------------------------------------------------------------------
(* Clients.                                                                *)

Records(l) == IF l.name \in Service THEN fake_SRV[l.resolver]
              ELSE fake_A[l.resolver]

Due(n, flags) ==
    IF resolver = None THEN "nothing"
    ELSE IF Expected(n) /\ flags \in {"default", Family[address]} THEN address
    ELSE None

\* uhm_resolver_lookup_by_name_with_flags(), uhm_resolver_lookup_service()
\* and their asynchronous versions, up to the loop over the records.
Begin(c, n, flags, async) ==
    /\ aborted = "no"
    /\ default_resolver # None
    /\ applying = <<>> \/ "overlap" \in Usage
    /\ lookup[c].step \in {"none", "done"}
    /\ lookup' = [lookup EXCEPT ![c] =
                     [NoLookup EXCEPT
                         !.step = "walking",
                         !.resolver = default_resolver,
                         !.name = n,
                         !.flags = flags,
                         !.async = async,
                         !.due = IF applying = <<>> THEN Due(n, flags) ELSE None]]
    /\ UNCHANGED <<serverVars, applying, recordVars, aborted>>

\* Whether an address is left out; one that does not parse never is.
skips(a, flags) ==
    \/ flags = "ipv4" /\ Family[a] = "ipv6"
    \/ flags = "ipv6" /\ Family[a] = "ipv4"

\* g_inet_address_new_from_string() returns NULL for what does not parse.
unparsed(a) == a
Parsed(a) == IF Family[a] = "invalid" THEN None ELSE a

g_list_prepend(list, x) == <<x>> \o list
g_list_append(list, x) == Append(list, x)

\* What a visit of record r makes of what was found.
find_fake_hosts(l, r) ==
    IF r.key # l.name \/ skips(r.addr, l.flags) THEN l.found
    ELSE g_list_append(l.found, Parsed(r.addr))
find_fake_services(l, r) ==
    IF r.key # l.name THEN l.found ELSE g_list_append(l.found, r.srv)

Visit(c) ==
    LET l == lookup[c]
        r == Records(l)[l.visited + 1]
    IN  /\ aborted = "no"
        /\ l.step = "walking"
        /\ ~l.freed
        /\ l.visited < Len(Records(l))
        /\ lookup' = [lookup EXCEPT
                         ![c].visited = @ + 1,
                         ![c].found = IF l.name \in Service
                                      THEN find_fake_services(l, r)
                                      ELSE find_fake_hosts(l, r)]
        /\ UNCHANGED <<serverVars, applying, recordVars, aborted>>

\* The answer of an asynchronous lookup, an error if nothing was found, is
\* left with its task.
Done(l) == [NoLookup EXCEPT !.step = "done", !.found = l.found, !.due = l.due]
Task(l) == [NoLookup EXCEPT !.step = "task", !.resolver = l.resolver,
                            !.name = l.name, !.found = l.found, !.due = l.due]

answered_if_found(l) ==
    IF ~l.async THEN Done(l) ELSE IF l.found # <<>> THEN Task(l) ELSE l
answered(l) == IF l.async THEN Task(l) ELSE Done(l)

Return(c) ==
    /\ aborted = "no"
    /\ lookup[c].step = "walking"
    /\ ~lookup[c].freed
    /\ lookup[c].visited = Len(Records(lookup[c]))
    /\ lookup' = [lookup EXCEPT ![c] = answered(@)]
    /\ UNCHANGED <<serverVars, applying, recordVars, aborted>>

\* A loop in freed memory ends with whatever it finds there (None stands for
\* that), or crashes.
ReturnFromFreed(c) ==
    LET l == lookup[c]
    IN  /\ aborted = "no"
        /\ l.freed
        /\ l.step = "walking"
        /\ \E more \in {<<>>, <<None>>} :
              lookup' = [lookup EXCEPT
                            ![c] = answered([l EXCEPT !.found = @ \o more])]
        /\ UNCHANGED <<serverVars, applying, recordVars, aborted>>

find_fake_crashes(c) ==
    /\ aborted = "no"
    /\ lookup[c].freed
    /\ lookup[c].step = "walking"
    /\ Abort("find_fake")

g_cancellable_cancel(c) ==
    /\ aborted = "no"
    /\ lookup[c].step = "task"
    /\ ~lookup[c].cancelled
    /\ lookup' = [lookup EXCEPT ![c].cancelled = TRUE]
    /\ UNCHANGED <<serverVars, applying, recordVars, aborted>>

\* uhm_resolver_lookup_by_name_finish() and uhm_resolver_lookup_service_finish().
\* A cancelled task returns an error and frees what it holds.
Finish(c) ==
    /\ aborted = "no"
    /\ lookup[c].step = "task"
    /\ lookup' = [lookup EXCEPT ![c] = IF @.cancelled
                                       THEN [NoLookup EXCEPT !.step = "done"]
                                       ELSE Done(@)]
    /\ UNCHANGED <<serverVars, applying, recordVars, aborted>>

\* The targets of a service are no objects, but are unreferenced as such.
fake_services_free(c) ==
    /\ aborted = "no"
    /\ lookup[c].step = "task"
    /\ lookup[c].cancelled
    /\ lookup[c].name \in Service
    /\ lookup[c].found # <<>>
    /\ Abort("fake_services_free")
-------------------------------------------------------------------------------
Application ==
    \/ uhm_server_run
    \/ uhm_server_stop
    \/ \E names \in DomainNames : uhm_server_set_expected_domain_names(names)
    \/ apply_expected_domain_names
    \/ \E h \in Host, a \in Addr : uhm_resolver_add_A(h, a)
    \/ \E s \in Service, t \in Target : uhm_resolver_add_SRV(s, t)

Proceed(c) ==
    \/ Visit(c)
    \/ Return(c)
    \/ ReturnFromFreed(c)
    \/ find_fake_crashes(c)

Deliver(c) == Finish(c) \/ fake_services_free(c)

ClientThread(c) ==
    \/ \E h \in Host, flags \in Flags, async \in BOOLEAN : Begin(c, h, flags, async)
    \/ \E s \in Service, async \in BOOLEAN : Begin(c, s, "default", async)
    \/ Proceed(c)
    \/ g_cancellable_cancel(c)
    \/ Deliver(c)

Dead == aborted # "no" /\ UNCHANGED vars

Next ==
    \/ Application
    \/ \E c \in Client : ClientThread(c)
    \/ Dead

Spec == Init /\ [][Next]_vars

\* The threads of the clients run, and so do the main loops they wait in.
Fairness == \A c \in Client : WF_vars(Proceed(c)) /\ WF_vars(Deliver(c))

FairSpec == Spec /\ Fairness
-------------------------------------------------------------------------------
(* Properties.                                                             *)

\* What a lookup would find if it took no time: the records of its name that
\* its flags want, in the order they were added.
Wanted(l, r) ==
    /\ r.key = l.name
    /\ l.name \in Host =>
          l.flags = "default" \/ Family[r.addr] \in {l.flags, "invalid"}
WantedIn(l, records, k) == {j \in 1 .. k : Wanted(l, records[j])}
Value(l, r) == IF l.name \in Host THEN Parsed(r.addr) ELSE r.srv

\* found is what the first k records give: the n-th of them is from the record
\* in place[n].
AnswerOf(l, records, k, found) ==
    \E place \in [1 .. Len(found) -> WantedIn(l, records, k)] :
        /\ \A m, n \in 1 .. Len(found) : m < n => place[m] < place[n]
        /\ \A j \in WantedIn(l, records, k) :
              \E n \in 1 .. Len(found) : place[n] = j
        /\ \A n \in 1 .. Len(found) : found[n] = Value(l, records[place[n]])

\* A lookup with records being added under its loop returns what one that
\* takes no time would return at its end: every address of the name that the
\* flags want, in the order they were added (the record an application adds
\* first is the one that is tried first), none missed or found twice.  Only a
\* reset under the loop spoils it.
LookupIsAtomic ==
    [][\A c \in Client :
          LET records == Records(lookup[c])
          IN  lookup[c].step = "walking" /\ lookup'[c].step # "walking"
                 /\ ~lookup[c].freed
              => AnswerOf(lookup[c], records, Len(records), lookup'[c].found)]_vars

\* "It also resets the set of domain names": from when uhm_server_stop() has
\* returned nothing resolves, though the resolver of the stopped server stays
\* the default one, and a client that begins then never meets an address of
\* a server that is gone, also when a server runs again before it ends.
StoppedServerIsForgotten ==
    \A c \in Client : lookup[c].due = "nothing" => lookup[c].found = <<>>

\* "It associates them with the server's current IP address, and automatically
\* updates the mappings if the IP address or resolver change": a lookup of
\* an expected name that begins with the server up, and that no reset
\* disturbs, finds the address of this run, in whichever run of the server
\* and whatever the application and the clients did before.
ExpectedNamesAreFound ==
    \A c \in Client :
        LET l == lookup[c]
        IN  l.step \in {"task", "done"} /\ l.due \in Local
            => l.due \in Elements(l.found)

\* Every lookup is answered: an asynchronous one also when it finds nothing,
\* when it is cancelled, and when the server has been stopped meanwhile.
LookupsReturn ==
    \A c \in Client :
        lookup[c].step \in {"walking", "task"} ~>
            (lookup[c].step = "done" \/ aborted # "no")
-------------------------------------------------------------------------------
(* What the proofs of these add to them, as an inductive invariant.        *)

Empty(v) == fake_A[v] = <<>> /\ fake_SRV[v] = <<>>
Recorded(n) == [key |-> n, addr |-> address] \in Elements(fake_A[resolver])

\* A server that runs has its resolver as the default one, with a record of
\* its address for each expected name, or one to come; one that is stopped
\* left an empty one, or none, behind.
ServerNames ==
    IF resolver = None
    THEN /\ applying = <<>>
         /\ default_resolver # None => Empty(default_resolver)
    ELSE /\ default_resolver = resolver
         /\ address \in Local
         /\ \A n \in Elements(expected_domain_names) \ Elements(applying) :
               Recorded(n)

\* A loop that was not cut short has what the records it visited give.  The
\* records of one that begins with the server stopped stay none, and those
\* of one that is due an address include it.
Walks(l) ==
    /\ l.resolver \in Object
    /\ l.name \in Host \cup Service
    /\ l.freed => l.due = None
    /\ ~l.freed =>
          /\ l.visited <= Len(Records(l))
          /\ AnswerOf(l, Records(l), l.visited, l.found)
    /\ l.due = "nothing" => l.resolver # resolver /\ Empty(l.resolver)
    /\ l.due \in Local =>
          /\ l.resolver = resolver /\ l.due = address
          /\ l.name \in Host /\ l.flags \in {"default", Family[l.due]}
          /\ Recorded(l.name)

\* What the records are, what each loop has seen of them and what it is due
\* stay consistent, however the two threads interleave.
Coherent ==
    /\ ServerNames
    /\ \A c \in Client : lookup[c].step = "walking" => Walks(lookup[c])
===============================================================================
