----------------------------- MODULE PhoneSync -----------------------------
(***************************************************************************)
(* Table phone_numbers and those who write it: the synchronisation with    *)
(* Meta (internal/service/phone_number.go, SyncFromMeta), which runs in    *)
(* the periodic goroutine of main and in every POST /api/v1/phone-numbers, *)
(* and the administrators' assign and activate requests                    *)
(* (internal/repository/phone_number.go).                                  *)
(*                                                                         *)
(* A synchronisation makes up to four calls for each number; others may    *)
(* run between any two of them.  UpdateProfile looks for the id that the   *)
(* call to Upsert before it made up, and that id is a row's only if the    *)
(* upsert inserted it.                                                     *)
(***************************************************************************)
EXTENDS Naturals, FiniteSets

CONSTANTS
  Number,    \* display numbers of the WhatsApp business account
  Company,
  None,      \* no company, no number
  Syncer,    \* who may synchronise: the periodic goroutine and requests
  MaxProfile, MaxFaults  \* bounds

ASSUME NoneAssumption == None \notin Company /\ None \notin Number

ASSUME PhoneBoundAssumption == MaxProfile \in Nat \ {0} /\ MaxFaults \in Nat

VARIABLES
  known,                  \* the numbers that have a row
  company, active,        \* its columns
  profile,                \* which version of Meta's profile it has, 0: none
  mark,                   \* its last_sync_pricing, 0: NULL
  listed, published,      \* Meta: the account's numbers, their profiles
  heard,                  \* the company of a conversation whose customer
                          \* has this very number
  at,                     \* the next call of a syncer
  todo, cur,              \* the numbers it has still to do; the one it does
  found, fresh, fetched,  \* what it found, whether its upsert inserted a
                          \* row, the profile it fetched
  faults                  \* unexpected failures so far

columns == <<known, company, active, profile>>
meta == <<listed, published, heard>>
phoneMemory == <<todo, cur, found, fresh, fetched>>

PhoneTypeOK ==
  /\ known \in SUBSET Number
  /\ company \in [Number -> Company \cup {None}]
  /\ active \in [Number -> BOOLEAN]
  /\ profile \in [Number -> 0 .. MaxProfile]
  /\ listed \in SUBSET Number
  /\ published \in [Number -> 1 .. MaxProfile]
  /\ heard \in [Number -> Company \cup {None}]
  /\ todo \in [Syncer -> SUBSET Number]
  /\ cur \in [Syncer -> Number \cup {None}]
  /\ found \in [Syncer -> Company \cup {None}]
  /\ fresh \in [Syncer -> BOOLEAN]
  /\ fetched \in [Syncer -> 0 .. MaxProfile]
  /\ faults \in 0 .. MaxFaults

PhoneInit ==
  /\ known = {}
  /\ company = [n \in Number |-> None]
  /\ active = [n \in Number |-> TRUE]
  /\ profile = [n \in Number |-> 0]
  /\ mark = [n \in Number |-> 0]
  /\ listed \in SUBSET Number
  /\ published = [n \in Number |-> 1]
  /\ heard = [n \in Number |-> None]
  /\ at = [p \in Syncer |-> "idle"]
  /\ todo = [p \in Syncer |-> {}]
  /\ cur = [p \in Syncer |-> None]
  /\ found = [p \in Syncer |-> None]
  /\ fresh = [p \in Syncer |-> FALSE]
  /\ fetched = [p \in Syncer |-> 0]
  /\ faults = 0

(* A call to the database or to Meta fails unexpectedly. *)
Fault == faults < MaxFaults /\ faults' = faults + 1

Goto(p, step) == at' = [at EXCEPT ![p] = step]

(* p forgets the number it was doing. *)
Forget(p) == /\ cur' = [cur EXCEPT ![p] = None]
             /\ found' = [found EXCEPT ![p] = None]
             /\ fresh' = [fresh EXCEPT ![p] = FALSE]
             /\ fetched' = [fetched EXCEPT ![p] = 0]

-----------------------------------------------------------------------------
(* PhoneNumberService.SyncFromMeta *)

(* Client.GetPhoneNumbers answers. *)
ListNumbers(p) ==
  /\ at[p] = "list"
  /\ Goto(p, "number")
  /\ todo' = [todo EXCEPT ![p] = listed]
  /\ UNCHANGED <<columns, mark, meta, cur, found, fresh, fetched, faults>>

(* The next number: whose is the conversation of a customer with it?  A      *)
(* failed query is taken for no conversation.                                *)
FindCompany(p, n) ==
  /\ at[p] = "number" /\ n \in todo[p]
  /\ Goto(p, "upsert")
  /\ todo' = [todo EXCEPT ![p] = @ \ {n}]
  /\ cur' = [cur EXCEPT ![p] = n]
  /\ \/ found' = [found EXCEPT ![p] = heard[n]] /\ UNCHANGED faults
     \/ found' = found /\ Fault
  /\ UNCHANGED <<columns, mark, meta, fresh, fetched>>

(* Mutant of CompanyAfter: the plain assignment of EXCLUDED.company_id. *)
CompanyAfterPlain(given, n) == given

(* COALESCE(EXCLUDED.company_id, phone_numbers.company_id).                  *)
CompanyAfter(given, n) == IF given = None THEN company[n] ELSE given

(* PhoneNumberRepository.Upsert: the row is inserted, or its company and its *)
(* activity flag are written again.                                          *)
Upsert(p) ==
  /\ at[p] = "upsert"
  /\ Goto(p, "fetch")
  /\ known' = known \cup {cur[p]}
  /\ company' = [company EXCEPT ![cur[p]] = CompanyAfter(found[p], cur[p])]
  /\ active' = [active EXCEPT ![cur[p]] = TRUE]
  /\ fresh' = [fresh EXCEPT ![p] = cur[p] \notin known]
  /\ UNCHANGED <<profile, mark, meta, todo, cur, found, fetched, faults>>

(* It is logged and the number skipped. *)
UpsertFails(p) ==
  /\ at[p] = "upsert"
  /\ Fault
  /\ Goto(p, "number")
  /\ Forget(p)
  /\ UNCHANGED <<columns, mark, meta, todo>>

(* Client.GetBusinessProfile answers, or fails and only logs. *)
FetchProfile(p) ==
  /\ at[p] = "fetch"
  /\ Goto(p, "profile")
  /\ fetched' = [fetched EXCEPT ![p] = published[cur[p]]]
  /\ UNCHANGED <<columns, mark, meta, todo, cur, found, fresh, faults>>

FetchFails(p) ==
  /\ at[p] = "fetch"
  /\ Fault
  /\ Goto(p, "number")
  /\ Forget(p)
  /\ UNCHANGED <<columns, mark, meta, todo>>

(* The id in the synchroniser's hands is the row's. *)
IdMatches(p) == fresh[p]

(* PhoneNumberRepository.UpdateProfile: WHERE id = the id Upsert made up. *)
StoreProfile(p) ==
  /\ at[p] = "profile"
  /\ Goto(p, "number")
  /\ profile' = IF IdMatches(p) THEN [profile EXCEPT ![cur[p]] = fetched[p]]
                                ELSE profile
  /\ Forget(p)
  /\ UNCHANGED <<known, company, active, mark, meta, todo, faults>>

StoreProfileFails(p) ==
  /\ at[p] = "profile"
  /\ Fault
  /\ Goto(p, "number")
  /\ Forget(p)
  /\ UNCHANGED <<columns, mark, meta, todo>>

(* All numbers are done, or Meta did not list them; what follows is up to    *)
(* the caller.                                                               *)
PhonesDone(p, next) ==
  /\ \/ at[p] = "number" /\ todo[p] = {} /\ UNCHANGED faults
     \/ at[p] = "list" /\ Fault
  /\ Goto(p, next)
  /\ UNCHANGED <<columns, mark, meta, phoneMemory>>

PhoneStep(p) ==
  \/ ListNumbers(p) \/ \E n \in Number : FindCompany(p, n)
  \/ Upsert(p) \/ UpsertFails(p) \/ FetchProfile(p) \/ FetchFails(p)
  \/ StoreProfile(p) \/ StoreProfileFails(p)

-----------------------------------------------------------------------------
(* Administrators, conversations and Meta *)

(* PhoneNumberRepository.AssignCompany *)
AssignCompany(n, c) ==
  /\ n \in known
  /\ company' = [company EXCEPT ![n] = c]
  /\ UNCHANGED <<known, active, profile, mark, meta, at, phoneMemory, faults>>

(* PhoneNumberRepository.UpdateIsActive *)
UpdateIsActive(n, b) ==
  /\ n \in known
  /\ active' = [active EXCEPT ![n] = b]
  /\ UNCHANGED <<known, company, profile, mark, meta, at, phoneMemory, faults>>

(* PhoneNumberService.UpdateProfile: the new profile goes to Meta only. *)
UpdateProfile(n) ==
  /\ n \in known /\ published[n] < MaxProfile
  /\ published' = [published EXCEPT ![n] = @ + 1]
  /\ UNCHANGED <<columns, mark, listed, heard, at, phoneMemory, faults>>

(* A number is added to the account at Meta. *)
Register(n) ==
  /\ n \notin listed
  /\ listed' = listed \cup {n}
  /\ UNCHANGED <<columns, mark, published, heard, at, phoneMemory, faults>>

(* One is removed; its row stays. *)
Deregister(n) ==
  /\ n \in listed
  /\ listed' = listed \ {n}
  /\ UNCHANGED <<columns, mark, published, heard, at, phoneMemory, faults>>

(* A customer whose number this is writes to company c's number.             *)
Hear(n, c) ==
  /\ heard[n] # c
  /\ heard' = [heard EXCEPT ![n] = c]
  /\ UNCHANGED <<columns, mark, listed, published, at, phoneMemory, faults>>

PhoneRequest ==
  \E n \in Number :
    \/ \E c \in Company : AssignCompany(n, c) \/ Hear(n, c)
    \/ \E b \in BOOLEAN : UpdateIsActive(n, b)
    \/ UpdateProfile(n) \/ Register(n) \/ Deregister(n)

-----------------------------------------------------------------------------
(* What these tables promise *)

(* A company that an administrator has given to a number is replaced only    *)
(* by an administrator or by a synchronisation that had found a conversation *)
(* of that company: a synchronisation that found none leaves it alone, even  *)
(* if the assignment was made while it was under way.                        *)
AssignmentKept ==
  [][\A n \in Number :
       company'[n] # company[n] =>
         \/ \E c \in Company : AssignCompany(n, c)
         \/ \E p \in Syncer : /\ cur[p] = n /\ at[p] = "upsert"
                              /\ company'[n] = found[p] /\ found[p] # None]_company

(* Table phone_numbers shows the profile of a number's first synchronisation *)
(* for ever: no later one refreshes it, whatever is published at Meta.       *)
ProfileWrittenOnce ==
  [][\A n \in Number : profile'[n] # profile[n] => profile[n] = 0]_profile
=============================================================================
