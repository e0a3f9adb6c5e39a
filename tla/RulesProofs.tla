----------------------------- MODULE RulesProofs -----------------------------
(***************************************************************************)
(* Theorems about five of the parts that share no state (MCRules checks    *)
(* them on small instances): advisory enrichment, whatever answers change, *)
(* requests and writes fail and lookups overlap; the requests of forges    *)
(* and operators, whatever overlaps, fails or is sent again; who the       *)
(* router lets in; the catalogue the two dashboard pages read, in any      *)
(* order of polls, webhooks, deliveries and prunes; and the start of       *)
(* servers and commands of several releases on one database.               *)
(***************************************************************************)
EXTENDS Access, Advisories, Catalogue, Ingress, Startup, WellFoundedInduction,
        FiniteSetTheorems, TLAPS

----------------------------------------------------------------------------
(* Advisory enrichment: types.                                             *)

Verified == [v : Versions, answer : SUBSET Vulns]
Entry    == [state : {"none", "fresh", "stale"}, answer : SUBSET Vulns]
Looking  == [pc : {"idle", "look", "write"}, asking : SUBSET Versions, waiting : SUBSET Versions,
             got : SUBSET Verified, tx : {"none", "open", "marker"}, overlap : BOOLEAN]

AdvisoriesTypeOK ==
    /\ osv \in [up : BOOLEAN, news : Nat, holds : [Versions -> SUBSET Vulns]]
    /\ cache \in [Versions -> Entry]
    /\ rows \in [Versions -> SUBSET Vulns]
    /\ checked \subseteq Versions /\ damaged \subseteq Versions
    /\ task \in [Lookers -> Looking]
    /\ answers \in [Versions -> SUBSET SUBSET Vulns]

----------------------------------------------------------------------------
(* What the properties rest on.                                            *)

\* What a lookup found, itself or in the cache, was answered.
AnswersHeld ==
    /\ \A v \in Versions : cache[v].state # "none" => cache[v].answer \in answers[v]
    /\ \A c \in Lookers : \A g \in task[c].got : g.answer \in answers[g.v]

\* A caller writes once every query has come back, and what it has to write is
\* not nothing.
Phases ==
    \A c \in Lookers :
        /\ task[c].pc # "look" => task[c].asking = {} /\ task[c].waiting = {}
        /\ task[c].pc = "write" => task[c].got # {}
        /\ task[c].pc # "write" => task[c].tx = "none"

\* The findings of v were lost or blended, or are an answer.
Settled(v) == v \in damaged \/ rows[v] \in answers[v]

\* Versions marked as checked, and those whose marker comes next, have been
\* answered for and written.
WrittenFirst ==
    /\ \A v \in checked : answers[v] # {} /\ Settled(v)
    /\ \A c \in Lookers : task[c].tx = "marker" => Settled(Leading(c).v)

AdvisoriesInv == AdvisoriesTypeOK /\ AnswersHeld /\ Phases /\ WrittenFirst

----------------------------------------------------------------------------
(* The operators of the module.                                            *)

\* The answer written next is one of those found (persist_advisory_result goes
\* through them in order, so there is an oldest).
LEMMA LeadingIsFound ==
    ASSUME AdvisoriesTypeOK, NEW c \in Lookers, task[c].got # {}
    PROVE  Leading(c) \in task[c].got
  <1> DEFINE Older == {s \in Nat \X Nat : s[1] < s[2]}
             Found == {g.v : g \in task[c].got}
  <1>1. Found \subseteq Nat /\ Found # {}
    <2>1. task[c].got \subseteq Verified
      BY DEF AdvisoriesTypeOK, Looking
    <2>2. \A g \in task[c].got : g.v \in Versions
      BY <2>1 DEF Verified
    <2> QED BY <2>2, AdvisoriesAssumption
  <1>2. IsWellFoundedOn(Older, Nat)
    BY NatLessThanWellFounded DEF OpToRel
  <1>3. \E x \in Found : \A y \in Found : <<y, x>> \notin Older
    <2> HIDE DEF Older, Found
    <2> QED BY <1>1, <1>2, WFMin
  <1>4. \A x \in Nat, y \in Nat : <<y, x>> \notin Older => x <= y
    OBVIOUS
  <1>5. \E x \in Found : \A y \in Found : x <= y
    <2> HIDE DEF Older, Found
    <2> QED BY <1>1, <1>3, <1>4
  <1>6. \E g \in task[c].got : \A h \in task[c].got : g.v <= h.v
    BY <1>5
  <1> QED BY <1>6 DEF Leading

\* Making room in the cache forgets answers and changes none.
LEMMA RoomForgets ==
    ASSUME cache \in [Versions -> Entry]
    PROVE  /\ Room(cache) \in [Versions -> Entry]
           /\ \A w \in Versions : Room(cache)[w] \in {cache[w], NoEntry}
  <1>1. NoEntry \in Entry
    BY DEF NoEntry, Entry
  <1> QED BY <1>1 DEF Room

\* The constant records are of the declared types.
LEMMA Constants ==
    /\ AtEase \in Looking /\ NoEntry \in Entry
    /\ FirstAnswer \in SUBSET Vulns
  BY AdvisoriesAssumption DEF AtEase, Looking, NoEntry, Entry, FirstAnswer

----------------------------------------------------------------------------
(* One lemma per kind of step.                                             *)

\* The initial states.
LEMMA InitAdvisories == AdvisoriesInit => AdvisoriesInv
  <1> SUFFICES ASSUME AdvisoriesInit PROVE AdvisoriesInv
    OBVIOUS
  <1>1. AdvisoriesTypeOK
    BY Constants DEF AdvisoriesInit, AdvisoriesTypeOK
  <1>2. /\ \A v \in Versions : cache[v].state = "none"
        /\ \A c \in Lookers : /\ task[c].pc = "idle" /\ task[c].tx = "none" /\ task[c].got = {}
                              /\ task[c].asking = {} /\ task[c].waiting = {}
        /\ checked = {}
    BY DEF AdvisoriesInit, AtEase, NoEntry
  <1> QED BY <1>1, <1>2 DEF AdvisoriesInv, AnswersHeld, Phases, WrittenFirst

\* A caller moves on: no table changes but, perhaps, the markers and the record
\* of what was lost.
LEMMA CallerKeeps ==
    ASSUME AdvisoriesInv, NEW c \in Lookers, NEW what \in Looking, Sets(c, what),
           \A g \in what.got : g.answer \in answers[g.v],
           what.pc # "look" => what.asking = {} /\ what.waiting = {},
           what.pc = "write" => what.got # {},
           what.pc # "write" => what.tx = "none",
           what.tx = "marker" => /\ what.got = task[c].got
                                 /\ \/ Leading(c).v \in damaged'
                                    \/ Settled(Leading(c).v),
           osv' = osv, cache' = cache, rows' = rows, answers' = answers,
           damaged \subseteq damaged', damaged' \subseteq Versions,
           checked' \subseteq Versions,
           \A v \in checked' : answers[v] # {} /\ Settled(v)
    PROVE  AdvisoriesInv'
  <1>t. AdvisoriesTypeOK
    BY DEF AdvisoriesInv
  <1>1. task'[c] = what /\ \A d \in Lookers \ {c} : task'[d] = task[d]
    BY <1>t DEF Sets, AdvisoriesTypeOK
  <1>2. AdvisoriesTypeOK'
    BY <1>t DEF Sets, AdvisoriesTypeOK
  <1>3. AnswersHeld'
    BY <1>1 DEF AdvisoriesInv, AnswersHeld
  <1>4. Phases'
    BY <1>1 DEF AdvisoriesInv, Phases
  <1>5. \A v : Settled(v) => Settled(v)'
    BY DEF Settled
  <1>6. WrittenFirst'
    <2>1. \A d \in Lookers : task'[d].tx = "marker" => Settled(Leading(d).v)'
      <3> SUFFICES ASSUME NEW d \in Lookers, task'[d].tx = "marker"
                   PROVE  Settled(Leading(d).v)'
        OBVIOUS
      <3>1. task'[d].got = task[d].got
        BY <1>1
      <3>2. Leading(d)' = Leading(d)
        BY <3>1 DEF Leading
      <3>3. CASE d = c
        BY <1>1, <1>5, <3>2, <3>3 DEF Settled
      <3>4. CASE d # c
        <4>1. Settled(Leading(d).v)
          BY <1>1, <3>4 DEF AdvisoriesInv, WrittenFirst
        <4> QED BY <4>1, <3>2 DEF Settled
      <3> QED BY <3>3, <3>4
    <2> QED BY <1>5, <2>1 DEF WrittenFirst
  <1> QED BY <1>2, <1>3, <1>4, <1>6 DEF AdvisoriesInv

\* A batch or a version is taken up.
LEMMA StartKeeps ==
    ASSUME AdvisoriesInv, NEW c \in Lookers, StartLookup(c)
    PROVE  AdvisoriesInv'
  <1>1. PICK vs \in SUBSET Versions : Sets(c, [AtEase EXCEPT !.pc = "look", !.asking = vs])
    <2>1. PICK vs : /\ \/ vs = unchecked_seen_versions(Batch)
                       \/ vs = backfill_advisories_for_detail(Batch)
                       \/ \E v \in Versions : vs = {v}
                    /\ Sets(c, [AtEase EXCEPT !.pc = "look", !.asking = vs])
      <3>1. c \in {"sweep", "page", "delivery"}
        BY AdvisoriesAssumption
      <3> QED BY <3>1 DEF StartLookup
    <2>2. vs \subseteq Versions
      BY <2>1 DEF unchecked_seen_versions, backfill_advisories_for_detail, Newest
    <2> QED BY <2>1, <2>2
  <1> DEFINE what == [AtEase EXCEPT !.pc = "look", !.asking = vs]
  <1>2. what \in Looking /\ what.pc = "look" /\ what.got = {} /\ what.tx = "none"
    BY DEF AtEase, Looking
  <1>3. Sets(c, what)
    BY <1>1
  <1> HIDE DEF what
  <1> QED BY <1>2, <1>3, CallerKeeps DEF StartLookup, AdvisoriesInv, AdvisoriesTypeOK, WrittenFirst

\* A cached answer is taken, a query is sent, skipped or lost.
LEMMA LookupKeeps ==
    ASSUME AdvisoriesInv, NEW c \in Lookers, NEW v \in Versions, Lookup(c, v) \/ NoReply(c, v)
    PROVE  AdvisoriesInv'
  <1>t. task[c] \in Looking /\ cache[v] \in Entry
    BY DEF AdvisoriesInv, AdvisoriesTypeOK
  <1>p. /\ task[c].pc = "look" /\ task[c].tx = "none"
        /\ \A g \in task[c].got : g.answer \in answers[g.v]
    BY DEF AdvisoriesInv, Phases, AnswersHeld, Lookup, NoReply
  <1>1. CASE Lookup(c, v)
    <2>1. CASE cached(v)
      <3> DEFINE found == [v |-> v, answer |-> cache[v].answer]
                 what == [[task[c] EXCEPT !.asking = @ \ {v}] EXCEPT !.got = @ \cup {found}]
      <3>1. found \in Verified /\ found.answer \in answers[found.v]
        BY <1>t, <2>1 DEF cached, Verified, Entry, AdvisoriesInv, AnswersHeld
      <3>2. what \in Looking /\ what.pc = "look" /\ what.tx = "none" /\ what.got = task[c].got \cup {found}
        BY <1>t, <1>p, <3>1 DEF Looking
      <3>3. Sets(c, what)
        BY <1>1, <2>1 DEF Lookup
      <3> HIDE DEF what, found
      <3> QED BY <1>1, <1>p, <3>1, <3>2, <3>3, CallerKeeps
             DEF Lookup, AdvisoriesInv, AdvisoriesTypeOK, WrittenFirst
    <2>2. CASE ~cached(v)
      <3> DEFINE rest == [task[c] EXCEPT !.asking = @ \ {v}]
                 sent == [rest EXCEPT !.waiting = @ \cup {v}]
      <3>1. /\ rest \in Looking /\ rest.pc = "look" /\ rest.tx = "none" /\ rest.got = task[c].got
            /\ sent \in Looking /\ sent.pc = "look" /\ sent.tx = "none" /\ sent.got = task[c].got
        BY <1>t, <1>p DEF Looking
      <3>2. Sets(c, rest) \/ Sets(c, sent)
        BY <1>1, <2>2 DEF Lookup
      <3> HIDE DEF rest, sent
      <3> QED BY <1>1, <1>p, <3>1, <3>2, CallerKeeps
             DEF Lookup, AdvisoriesInv, AdvisoriesTypeOK, WrittenFirst
    <2> QED BY <2>1, <2>2
  <1>2. CASE NoReply(c, v)
    <2>1. PICK what \in Looking : /\ Sets(c, what) /\ what.pc = "look" /\ what.tx = "none"
                                  /\ what.got = task[c].got
      BY <1>2, <1>t, <1>p DEF NoReply, Looking
    <2> QED BY <1>2, <1>p, <2>1, CallerKeeps
           DEF NoReply, record_failure, AdvisoriesInv, AdvisoriesTypeOK, WrittenFirst
  <1> QED BY <1>1, <1>2

\* A batch has come back, or the next findings are begun.
LEMMA TurnKeeps ==
    ASSUME AdvisoriesInv, NEW c \in Lookers, Gathered(c) \/ BeginFindings(c)
    PROVE  AdvisoriesInv'
  <1> DEFINE write == [task[c] EXCEPT !.pc = "write"]
             begin == [task[c] EXCEPT !.tx = "open", !.overlap = FALSE]
  <1>t. task[c] \in Looking
    BY DEF AdvisoriesInv, AdvisoriesTypeOK
  <1>p. /\ task[c].pc # "look" => task[c].asking = {} /\ task[c].waiting = {}
        /\ task[c].pc = "write" => task[c].got # {}
        /\ task[c].pc # "write" => task[c].tx = "none"
        /\ \A g \in task[c].got : g.answer \in answers[g.v]
    BY DEF AdvisoriesInv, Phases, AnswersHeld
  <1>f. /\ osv' = osv /\ cache' = cache /\ rows' = rows /\ answers' = answers
        /\ damaged' = damaged /\ checked' = checked
    BY DEF Gathered, BeginFindings
  <1>1. /\ write \in Looking /\ write.pc = "write" /\ write.got = task[c].got
        /\ write.asking = task[c].asking /\ write.waiting = task[c].waiting
        /\ write.tx = task[c].tx
        /\ begin \in Looking /\ begin.pc = task[c].pc /\ begin.got = task[c].got
        /\ begin.asking = task[c].asking /\ begin.waiting = task[c].waiting
        /\ begin.tx = "open"
    BY <1>t DEF Looking
  <1>2. AtEase.pc = "idle" /\ AtEase.got = {} /\ AtEase.tx = "none"
        /\ AtEase.asking = {} /\ AtEase.waiting = {}
    BY DEF AtEase
  <1>3. CASE Gathered(c)
    <2>1. /\ Sets(c, AtEase) \/ (Sets(c, write) /\ task[c].got # {})
          /\ task[c].asking = {} /\ task[c].waiting = {} /\ task[c].tx = "none"
      BY <1>3, <1>p DEF Gathered
    <2> HIDE DEF write, begin
    <2>2. CASE Sets(c, AtEase)
      BY <1>2, <1>f, <2>2, Constants, CallerKeeps DEF AdvisoriesInv, AdvisoriesTypeOK, WrittenFirst
    <2>3. CASE Sets(c, write) /\ task[c].got # {}
      BY <1>1, <1>p, <1>f, <2>1, <2>3, CallerKeeps DEF AdvisoriesInv, AdvisoriesTypeOK, WrittenFirst
    <2> QED BY <2>1, <2>2, <2>3
  <1>4. CASE BeginFindings(c)
    <2>1. Sets(c, begin) /\ task[c].pc = "write"
      BY <1>4 DEF BeginFindings
    <2> HIDE DEF write, begin
    <2> QED BY <1>1, <1>p, <1>f, <2>1, CallerKeeps DEF AdvisoriesInv, AdvisoriesTypeOK, WrittenFirst
  <1> QED BY <1>3, <1>4

\* Findings could not be written: the version counts as damaged.
LEMMA FailureKeeps ==
    ASSUME AdvisoriesInv, NEW c \in Lookers, FindingsFail(c)
    PROVE  AdvisoriesInv'
  <1> DEFINE next == [task[c] EXCEPT !.tx = "marker"]
  <1>t. task[c] \in Looking /\ AdvisoriesTypeOK
    BY DEF AdvisoriesInv, AdvisoriesTypeOK
  <1>p. /\ task[c].pc = "write" /\ task[c].asking = {} /\ task[c].waiting = {}
        /\ task[c].got # {} /\ \A g \in task[c].got : g.answer \in answers[g.v]
    BY DEF FindingsFail, AdvisoriesInv, Phases, AnswersHeld
  <1>1. /\ next \in Looking /\ next.pc = "write" /\ next.got = task[c].got
        /\ next.asking = {} /\ next.waiting = {}
    BY <1>t, <1>p DEF Looking
  <1>2. Sets(c, next) /\ damaged' = damaged \cup {Leading(c).v}
    BY DEF FindingsFail
  <1>3. Leading(c).v \in Versions
    BY <1>t, <1>p, LeadingIsFound DEF Looking, Verified
  <1> HIDE DEF next
  <1> QED BY <1>t, <1>p, <1>1, <1>2, <1>3, CallerKeeps
         DEF FindingsFail, AdvisoriesInv, AdvisoriesTypeOK, WrittenFirst

\* The marker follows the findings, or fails to.
LEMMA MarkerKeeps ==
    ASSUME AdvisoriesInv, NEW c \in Lookers, record_advisory_check(c) \/ CheckFails(c)
    PROVE  AdvisoriesInv'
  <1> DEFINE left == task[c].got \ {Leading(c)}
             next == IF left = {} THEN AtEase ELSE [task[c] EXCEPT !.got = left, !.tx = "none"]
  <1>t. task[c] \in Looking /\ AdvisoriesTypeOK
    BY DEF AdvisoriesInv, AdvisoriesTypeOK
  <1>p. /\ task[c].pc = "write" /\ task[c].asking = {} /\ task[c].waiting = {}
        /\ task[c].got # {} /\ task[c].tx = "marker"
        /\ \A g \in task[c].got : g.answer \in answers[g.v]
    BY DEF record_advisory_check, CheckFails, AdvisoriesInv, Phases, AnswersHeld
  <1>1. /\ next \in Looking /\ next.tx = "none" /\ next.asking = {} /\ next.waiting = {}
        /\ next.pc = "write" => next.got # {}
        /\ next.got \subseteq task[c].got
    <2>1. CASE left = {}
      BY <2>1, Constants DEF AtEase
    <2>2. CASE left # {}
      BY <1>t, <1>p, <2>2 DEF Looking
    <2> QED BY <2>1, <2>2
  <1>2. Sets(c, next)
    BY DEF record_advisory_check, CheckFails, NextAnswer
  <1>3. /\ Leading(c).v \in Versions /\ Leading(c).answer \in answers[Leading(c).v]
        /\ Settled(Leading(c).v)
    <2>1. Leading(c) \in task[c].got
      BY <1>t, <1>p, LeadingIsFound
    <2> QED BY <1>t, <1>p, <2>1 DEF Looking, Verified, AdvisoriesInv, WrittenFirst
  <1>4. \A v \in checked \cup {Leading(c).v} : answers[v] # {} /\ Settled(v)
    BY <1>3 DEF AdvisoriesInv, WrittenFirst
  <1>5. /\ checked' \subseteq checked \cup {Leading(c).v} /\ damaged' = damaged
        /\ osv' = osv /\ cache' = cache /\ rows' = rows /\ answers' = answers
    BY DEF record_advisory_check, CheckFails
  <1>6. /\ checked' \subseteq Versions /\ damaged' \subseteq Versions
        /\ \A v \in checked' : answers[v] # {} /\ Settled(v)
    BY <1>t, <1>3, <1>4, <1>5 DEF AdvisoriesTypeOK
  <1>7. \A g \in next.got : g.answer \in answers[g.v]
    BY <1>1, <1>p
  <1> HIDE DEF next, left
  <1> QED BY <1>1, <1>2, <1>5, <1>6, <1>7, CallerKeeps

\* An answer arrives: it is remembered before anyone can use it.
LEMMA ReplyKeeps ==
    ASSUME AdvisoriesInv, NEW c \in Lookers, NEW v \in Versions, Reply(c, v)
    PROVE  AdvisoriesInv'
  <1> DEFINE a    == osv.holds[v]
             it   == [v |-> v, answer |-> a]
             what == [task[c] EXCEPT !.waiting = @ \ {v}, !.got = @ \cup {it}]
             kept == [state |-> "fresh", answer |-> a]
  <1>t. /\ AdvisoriesTypeOK /\ task[c] \in Looking /\ a \in SUBSET Vulns
        /\ answers[v] \in SUBSET SUBSET Vulns
    BY DEF AdvisoriesInv, AdvisoriesTypeOK
  <1>p. task[c].pc = "look" /\ task[c].tx = "none"
    BY DEF AdvisoriesInv, Phases, Reply
  <1>1. /\ what \in Looking /\ what.pc = "look" /\ what.tx = "none"
        /\ what.got = task[c].got \cup {it}
    <2>1. it \in Verified
      BY <1>t DEF Verified
    <2> HIDE DEF it
    <2> QED BY <1>t, <1>p, <2>1 DEF Looking
  <1>2. task'[c] = what /\ \A d \in Lookers \ {c} : task'[d] = task[d]
    BY <1>t DEF Reply, Sets, AdvisoriesTypeOK
  <1>3. /\ answers' \in [Versions -> SUBSET SUBSET Vulns]
        /\ a \in answers'[v] /\ \A w \in Versions : answers[w] \subseteq answers'[w]
    BY <1>t DEF Reply, AdvisoriesTypeOK
  <1>4. /\ cache' \in [Versions -> Entry]
        /\ cache'[v] = kept /\ \A w \in Versions \ {v} : cache'[w] \in {cache[w], NoEntry}
    BY <1>t, RoomForgets DEF Reply, record_success, AdvisoriesTypeOK, Entry
  <1>5. task' \in [Lookers -> Looking]
    <2> HIDE DEF what
    <2> QED BY <1>t, <1>1 DEF Reply, Sets, AdvisoriesTypeOK, what
  <1>6. AdvisoriesTypeOK'
    BY <1>t, <1>3, <1>4, <1>5 DEF Reply, AdvisoriesTypeOK
  <1>7. AnswersHeld'
    <2>1. \A w \in Versions : cache'[w].state # "none" => cache'[w].answer \in answers'[w]
      BY <1>3, <1>4 DEF NoEntry, AdvisoriesInv, AnswersHeld
    <2>2. \A g \in task'[c].got : g.answer \in answers'[g.v]
      <3>1. \A g \in task[c].got : g.v \in Versions /\ g.answer \in answers[g.v]
        BY <1>t DEF AdvisoriesInv, AnswersHeld, Looking, Verified
      <3>2. it.v = v /\ it.answer = a
        OBVIOUS
      <3> HIDE DEF it, what, a
      <3> QED BY <1>1, <1>2, <1>3, <3>1, <3>2
    <2>3. \A d \in Lookers \ {c} : \A g \in task'[d].got : g.answer \in answers'[g.v]
      <3>1. \A d \in Lookers : \A g \in task[d].got : g.v \in Versions /\ g.answer \in answers[g.v]
        BY <1>t DEF AdvisoriesInv, AnswersHeld, AdvisoriesTypeOK, Looking, Verified
      <3> QED BY <1>2, <1>3, <3>1
    <2> QED BY <2>1, <2>2, <2>3 DEF AnswersHeld
  <1>8. Phases'
    <2> HIDE DEF what
    <2> QED BY <1>1, <1>2 DEF AdvisoriesInv, Phases
  <1>9. WrittenFirst'
    <2>1. rows' = rows /\ damaged' = damaged /\ checked' = checked
      BY DEF Reply
    <2>2. \A w \in Versions : Settled(w) => Settled(w)'
      BY <1>3, <2>1 DEF Settled
    <2>3. \A w \in checked' : answers'[w] # {} /\ Settled(w)'
      BY <1>t, <1>3, <2>1, <2>2 DEF AdvisoriesInv, WrittenFirst, AdvisoriesTypeOK
    <2>4. ASSUME NEW d \in Lookers, task'[d].tx = "marker" PROVE Settled(Leading(d).v)'
      <3>1. d # c
        BY <1>1, <1>2, <2>4
      <3>2. task'[d] = task[d] /\ Leading(d)' = Leading(d)
        BY <1>2, <3>1 DEF Leading
      <3>3. task[d].tx = "marker" /\ task[d].pc = "write" /\ task[d].got # {}
        BY <2>4, <3>2 DEF AdvisoriesInv, Phases
      <3>4. Leading(d).v \in Versions
        BY <1>t, <3>3, LeadingIsFound DEF AdvisoriesTypeOK, Looking, Verified
      <3>5. Settled(Leading(d).v)
        BY <3>3 DEF AdvisoriesInv, WrittenFirst
      <3> QED BY <2>2, <3>2, <3>4, <3>5
    <2> QED BY <2>3, <2>4 DEF WrittenFirst
  <1> QED BY <1>6, <1>7, <1>8, <1>9 DEF AdvisoriesInv

\* Findings are replaced, or blended with what another writer committed.
LEMMA FindingsKeep ==
    ASSUME AdvisoriesInv, NEW c \in Lookers, record_advisories(c)
    PROVE  AdvisoriesInv'
  <1>0. PICK v, a : v = Leading(c).v /\ a = Leading(c).answer
    OBVIOUS
  <1>t. /\ AdvisoriesTypeOK /\ task[c] \in Looking
        /\ task[c].pc = "write" /\ task[c].got # {}
    BY DEF AdvisoriesInv, AdvisoriesTypeOK, record_advisories, Phases
  <1>1. v \in Versions /\ a \in SUBSET Vulns /\ a \in answers[v]
    <2>1. Leading(c) \in task[c].got
      BY <1>t, LeadingIsFound
    <2> QED BY <1>0, <1>t, <2>1 DEF Looking, Verified, AdvisoriesInv, AnswersHeld
  <1>2. /\ rows' = [rows EXCEPT ![v] = IF task[c].overlap THEN @ \cup a ELSE a]
        /\ damaged' = IF task[c].overlap THEN damaged \cup {v} ELSE damaged \ {v}
        /\ task' = [d \in Lookers |->
                      IF d = c THEN [task[c] EXCEPT !.tx = "marker"]
                      ELSE IF Writing(d, v) THEN [task[d] EXCEPT !.overlap = TRUE]
                      ELSE task[d]]
        /\ osv' = osv /\ cache' = cache /\ checked' = checked /\ answers' = answers
    BY <1>0 DEF record_advisories
  <1>3. /\ task' \in [Lookers -> Looking]
        /\ task'[c].tx = "marker"
        /\ \A d \in Lookers : /\ task'[d].pc = task[d].pc /\ task'[d].got = task[d].got
                              /\ task'[d].asking = task[d].asking
                              /\ task'[d].waiting = task[d].waiting
                              /\ d # c => task'[d].tx = task[d].tx
    <2>1. \A d \in Lookers : task[d] \in Looking
      BY <1>t DEF AdvisoriesTypeOK
    <2>2. ASSUME NEW d \in Lookers
          PROVE  /\ task'[d] \in Looking
                 /\ task'[d].pc = task[d].pc /\ task'[d].got = task[d].got
                 /\ task'[d].asking = task[d].asking /\ task'[d].waiting = task[d].waiting
                 /\ d # c => task'[d].tx = task[d].tx
                 /\ d = c => task'[d].tx = "marker"
      BY <1>2, <2>1 DEF Looking
    <2> QED BY <1>2, <2>2
  <1>4. /\ \A w \in Versions \ {v} : rows'[w] = rows[w] /\ (w \in damaged' <=> w \in damaged)
        /\ v \in damaged' \/ rows'[v] = a
        /\ rows' \in [Versions -> SUBSET Vulns] /\ damaged' \subseteq Versions
    BY <1>t, <1>1, <1>2 DEF AdvisoriesTypeOK
  <1>5. AdvisoriesTypeOK'
    BY <1>t, <1>2, <1>3, <1>4 DEF AdvisoriesTypeOK
  <1>6. AnswersHeld' /\ Phases'
    <2>1. \A d \in Lookers : task'[d].tx # "none" => task'[d].pc = "write"
      BY <1>3, <1>t DEF AdvisoriesInv, Phases
    <2> QED BY <1>2, <1>3, <2>1 DEF AdvisoriesInv, AnswersHeld, Phases
  <1>7. \A w \in Versions : Settled(w) => Settled(w)'
    BY <1>1, <1>2, <1>4 DEF Settled
  <1>8. Settled(v)'
    BY <1>1, <1>2, <1>4 DEF Settled
  <1>9. WrittenFirst'
    <2>1. \A w \in checked' : answers'[w] # {} /\ Settled(w)'
      BY <1>t, <1>2, <1>7 DEF AdvisoriesInv, WrittenFirst, AdvisoriesTypeOK
    <2>2. ASSUME NEW d \in Lookers, task'[d].tx = "marker" PROVE Settled(Leading(d).v)'
      <3>1. Leading(d)' = Leading(d)
        BY <1>3 DEF Leading
      <3>2. CASE d = c
        BY <1>0, <1>8, <3>1, <3>2 DEF Settled
      <3>3. CASE d # c
        <4>1. task[d].tx = "marker" /\ task[d].got # {}
          BY <1>3, <2>2, <3>3 DEF AdvisoriesInv, Phases
        <4>2. Leading(d).v \in Versions
          BY <1>t, <4>1, LeadingIsFound DEF AdvisoriesTypeOK, Looking, Verified
        <4>3. Settled(Leading(d).v)
          BY <4>1 DEF AdvisoriesInv, WrittenFirst
        <4> QED BY <1>7, <3>1, <4>2, <4>3
      <3> QED BY <3>2, <3>3
    <2> QED BY <2>1, <2>2 DEF WrittenFirst
  <1> QED BY <1>5, <1>6, <1>9 DEF AdvisoriesInv

\* News, outages, aging and cooldowns touch nothing that was found.
LEMMA WorldKeeps ==
    ASSUME AdvisoriesInv,
           \/ \E v \in Versions : CacheAges(v) \/ \E a \in Answers : Publishes(v, a)
           \/ Outage \/ BreakerCools \/ UNCHANGED advisoriesVars
    PROVE  AdvisoriesInv'
  <1>t. AdvisoriesTypeOK
    BY DEF AdvisoriesInv
  <1>1. /\ rows' = rows /\ checked' = checked /\ damaged' = damaged
        /\ task' = task /\ answers' = answers
    BY DEF CacheAges, Publishes, Outage, BreakerCools, advisoriesVars
  <1>2. osv' \in [up : BOOLEAN, news : Nat, holds : [Versions -> SUBSET Vulns]]
    <2>1. ASSUME NEW v \in Versions, NEW a \in Answers, Publishes(v, a)
          PROVE  osv' \in [up : BOOLEAN, news : Nat, holds : [Versions -> SUBSET Vulns]]
      <3>1. [osv.holds EXCEPT ![v] = a] \in [Versions -> SUBSET Vulns]
        BY <1>t, AdvisoriesAssumption DEF AdvisoriesTypeOK
      <3>2. osv' = [up |-> osv.up, news |-> osv.news + 1, holds |-> [osv.holds EXCEPT ![v] = a]]
        BY <1>t, <2>1 DEF Publishes, AdvisoriesTypeOK
      <3> QED BY <1>t, <3>1, <3>2 DEF AdvisoriesTypeOK
    <2>2. CASE Outage
      BY <1>t, <2>2 DEF Outage, AdvisoriesTypeOK
    <2> QED BY <1>t, <2>1, <2>2 DEF CacheAges, BreakerCools, advisoriesVars, AdvisoriesTypeOK
  <1>3. /\ cache' \in [Versions -> Entry]
        /\ \A w \in Versions : /\ cache'[w].answer = cache[w].answer
                               /\ cache'[w].state # "none" => cache[w].state # "none"
    <2>1. ASSUME NEW v \in Versions, CacheAges(v)
          PROVE  /\ cache' \in [Versions -> Entry]
                 /\ \A w \in Versions : /\ cache'[w].answer = cache[w].answer
                                        /\ cache'[w].state # "none" => cache[w].state # "none"
      BY <1>t, <2>1 DEF CacheAges, AdvisoriesTypeOK, Entry
    <2> QED BY <1>t, <2>1 DEF Publishes, Outage, BreakerCools, advisoriesVars, AdvisoriesTypeOK
  <1>4. AdvisoriesTypeOK' /\ AnswersHeld' /\ Phases'
    BY <1>t, <1>1, <1>2, <1>3 DEF AdvisoriesInv, AdvisoriesTypeOK, AnswersHeld, Phases
  <1>5. WrittenFirst'
    BY <1>1 DEF AdvisoriesInv, WrittenFirst, Settled, Leading
  <1> QED BY <1>4, <1>5 DEF AdvisoriesInv

----------------------------------------------------------------------------
(* The theorems.                                                           *)

\* What lookups hold, what they write first and what shape it has, whichever
\* callers overlap, requests fail or writes are lost.
THEOREM AdvisoriesInvariance == AdvisoriesSpec => []AdvisoriesInv
  <1>1. ASSUME AdvisoriesInv, [AdvisoriesNext]_advisoriesVars
        PROVE  AdvisoriesInv'
    BY <1>1, WorldKeeps, StartKeeps, LookupKeeps, ReplyKeeps, TurnKeeps, FindingsKeep,
       FailureKeeps, MarkerKeeps DEF AdvisoriesNext, CallerStep
  <1> QED BY <1>1, InitAdvisories, PTL DEF AdvisoriesSpec

\* What the tables say of a version is what the advisory database said of it
\* (persist_advisory_result): a version is retired from unchecked_seen_versions
\* only after an answer, and unless a write failed or two overlapped, its
\* findings are one answer and not a mixture.
THEOREM FindingsAlwaysAnswers == AdvisoriesSpec => []FindingsAreAnswers
  <1>1. AdvisoriesInv => FindingsAreAnswers
    BY DEF AdvisoriesInv, WrittenFirst, Settled, FindingsAreAnswers, CheckedWasAnswered,
       FindingsAreAnAnswer
  <1> QED BY <1>1, AdvisoriesInvariance, PTL

----------------------------------------------------------------------------
(* Pushed events and checks: types.                                        *)

\* What a request in hand carries, and what each watch has announced.
Tags     == {Missing} \cup {into_release(r).tag : r \in Pushes}
Said     == {"refused", "duplicate", "ignored", "bad", "unknown", "nothing", "delivered",
             "failed", "checking", "checked"}
Handling == [pc : {"claim", "parse", "deliver", "flush", "poll", "answered"}, req : Pushes,
             todo : SUBSET Watches, sent : Nat, failed : Nat, tag : Tags, status : Nat, said : Said]
Memory   == [Watches -> SUBSET UNION {Admits[w] : w \in Watches}]

IngressTypeOK ==
    /\ seen \in Memory
    /\ slot \in [Slots -> Handling \cup {Empty}]

----------------------------------------------------------------------------
(* What an answer rests on.                                                *)

\* The request is an event whose body names a release.
Names(r) == r.kind # "check" /\ r.body.json /\ into_release(r).is = "release"

\* Every watch the event is for, but those still to be served, has heard of it.
HeardBy(r, todo) == \A w \in Tenants(r) \ todo : Heard(w, into_release(r).tag)

\* The watches a check has been to and that have something listed unheard.
Behind(todo) == {w \in Watches \ todo : \E tag \in Listed[w] : ~Heard(w, tag)}

\* A request in hand, step by step: it delivers what its body names, to the
\* watches the event is for; a duplicate has found its id; a check has served
\* the watches it has been to, short of its failures.
InHand == {"parse", "deliver"}
Told   == {"delivered", "nothing"}
SlotHolds(x) ==
    /\ x.pc \in {"claim", "parse", "deliver"} => x.req.kind # "check"
    /\ x.pc \in {"flush", "poll"} => x.req.kind = "check"
    /\ x.pc = "deliver" \/ (x.pc = "answered" /\ x.said \in Told) =>
         /\ Names(x.req) /\ x.tag = into_release(x.req).tag
         /\ HeardBy(x.req, IF x.pc = "deliver" THEN x.todo ELSE {})
    /\ x.pc = "answered" /\ x.said = "duplicate" =>
         x.req.kind # "check" /\ x.req.id # Missing /\ delivery_id(x.req) \in claimed
    /\ x.pc = "flush" => x.todo = Watches
    /\ x.pc = "poll" /\ ~x.req.dry => Cardinality(Behind(x.todo)) <= x.failed
    /\ x.pc = "answered" /\ x.said = "checked" /\ ~x.req.dry =>
         Cardinality(Behind({})) <= x.failed

SlotsHold == \A s \in Slots, x \in Handling \cup {Empty} : slot[s] = x => SlotHolds(x)

\* An id that was claimed, and whose handling met no error, is in hand or has
\* been heard by everyone it is for.
Handles(s, r) == slot[s].pc \in InHand /\ delivery_id(slot[s].req) = delivery_id(r)
ClaimsHold ==
    \A r \in Pushes :
        Names(r) /\ r.id # Missing /\ delivery_id(r) \in claimed \ spoiled =>
            HeardBy(r, {}) \/ \E s \in Slots : Handles(s, r)

IngressInv == IngressTypeOK /\ SlotsHold /\ ClaimsHold

----------------------------------------------------------------------------
(* The operators of the module.                                            *)

\* What a body is mapped to, and that a release is one of the body's repository.
LEMMA Mapped ==
    ASSUME NEW r \in Pushes, r.kind # "check"
    PROVE  /\ into_release(r).is \in {"ignored", "bad", "release"}
           /\ into_release(r).is = "release" => into_release(r).key = r.body.repo
  <1>1. r.kind \in {"github", "gitea", "gitlab", "bitbucket", "docker", "generic"}
    BY IngressAssumption
  <1>2. /\ Ignored.is = "ignored" /\ BadRequest.is = "bad"
        /\ \A key, tag : Release(key, tag).is = "release" /\ Release(key, tag).key = key
    BY DEF Ignored, BadRequest, Release
  <1>3. \A b : GiteaCompatible_into_release(b) \in {Ignored, BadRequest, Release(b.repo, Head(b.tags))}
    BY DEF GiteaCompatible_into_release
  <1>4. \A b : Gitlab_into_release(b) \in {Ignored, BadRequest, Release(b.repo, Head(b.tags))}
    BY DEF Gitlab_into_release
  <1>5. \A b : \/ Bitbucket_into_release(b) \in {Ignored, BadRequest}
               \/ \E tag : Bitbucket_into_release(b) = Release(b.repo, tag)
    BY DEF Bitbucket_into_release
  <1>6. \A b : Docker_into_release(b) \in {Ignored, BadRequest, Release(b.repo, Head(b.tags))}
    BY DEF Docker_into_release
  <1>7. \/ into_release(r) \in {Ignored, BadRequest}
        \/ \E tag : into_release(r) = Release(r.body.repo, tag)
    BY <1>1, <1>3, <1>4, <1>5, <1>6 DEF into_release
  <1> QED BY <1>2, <1>7

\* The lookup finds the watches the event is for.
LEMMA LookupFindsTenants ==
    ASSUME NEW r \in Pushes, r.kind # "check"
    PROVE  find_watches(r, r.body.repo) = Tenants(r) /\ Tenants(r) \subseteq Watches
  <1>1. r.kind \in {"github", "gitea", "gitlab", "bitbucket", "docker", "generic"}
    BY IngressAssumption
  <1>2. /\ Family["github"] = {"github"} /\ Family["gitea"] = {"gitea", "codeberg"}
        /\ Family["gitlab"] = {"gitlab"} /\ Family["bitbucket"] = {"bitbucket"}
        /\ Family["docker"] = CONTAINER_KINDS
    BY DEF Family
  <1>3. CASE r.kind = "generic"
    BY <1>3 DEF find_watches, find_by_id, Tenants
  <1>4. CASE r.kind # "generic"
    BY <1>1, <1>2, <1>4 DEF find_watches, find_repos_any, Tenants
  <1> QED BY <1>3, <1>4

\* Deliveries with one id name the same release for the same watches.
LEMMA SameDelivery ==
    ASSUME NEW r \in Pushes, NEW q \in Pushes, r.kind # "check", r.id # Missing,
           delivery_id(q) = delivery_id(r)
    PROVE  /\ Names(q) <=> Names(r)
           /\ into_release(q) = into_release(r) /\ Tenants(q) = Tenants(r)
  <1>1. q.kind = r.kind /\ q.id = r.id
    BY DEF delivery_id
  <1>2. q.body = r.body
    BY <1>1, IngressAssumption
  <1> QED BY <1>1, <1>2 DEF Names, into_release, Tenants

\* What is behind is among the finitely many watches.
LEMMA FewBehind ==
    ASSUME NEW todo
    PROVE  /\ Behind(todo) \subseteq Watches /\ IsFiniteSet(Behind(todo))
           /\ Cardinality(Behind(todo)) \in Nat
  <1>1. Behind(todo) \subseteq Watches
    BY DEF Behind
  <1> QED BY <1>1, IngressAssumption, FS_Subset, FS_CardinalityType

----------------------------------------------------------------------------
(* What is heard stays heard, what is claimed stays claimed.               *)

Grows == /\ seen' \in Memory
         /\ \A w \in Watches : seen[w] \subseteq seen'[w]
         /\ claimed \subseteq claimed'

\* A watch that has heard an event has heard it for good.
LEMMA HeardStays ==
    ASSUME Grows, NEW r \in Pushes, r.kind # "check", NEW todo, HeardBy(r, todo)
    PROVE  HeardBy(r, todo)'
  BY LookupFindsTenants DEF Grows, HeardBy, Heard, Tenants

\* What a check has served stays served.
LEMMA BehindShrinks ==
    ASSUME Grows, NEW todo, NEW n \in Nat, Cardinality(Behind(todo)) <= n
    PROVE  Cardinality(Behind(todo)') <= n
  <1>1. Behind(todo)' \subseteq Behind(todo)
    BY DEF Grows, Behind, Heard
  <1>2. /\ Cardinality(Behind(todo)') <= Cardinality(Behind(todo))
        /\ Cardinality(Behind(todo)') \in Nat /\ Cardinality(Behind(todo)) \in Nat
    BY <1>1, FewBehind, FS_Subset, FS_CardinalityType
  <1> QED BY <1>2

\* What a request rests on stays true while others work.
LEMMA SlotStays ==
    ASSUME Grows, NEW x \in Handling \cup {Empty}, SlotHolds(x)
    PROVE  SlotHolds(x)'
  <1>1. CASE x = Empty
    BY <1>1 DEF SlotHolds, Empty
  <1>2. CASE x \in Handling
    <2>1. x.req \in Pushes /\ x.failed \in Nat
      BY <1>2 DEF Handling
    <2>2. Names(x.req)' <=> Names(x.req)
      BY DEF Names
    <2>3. x.pc = "deliver" \/ (x.pc = "answered" /\ x.said \in Told) =>
            HeardBy(x.req, IF x.pc = "deliver" THEN x.todo ELSE {})'
      <3>1. CASE x.pc = "deliver"
        BY <2>1, <3>1, HeardStays DEF SlotHolds
      <3>2. CASE x.pc = "answered" /\ x.said \in Told
        <4>1. x.req.kind # "check" /\ HeardBy(x.req, {})
          BY <3>2 DEF SlotHolds, Names
        <4> QED BY <2>1, <3>2, <4>1, HeardStays
      <3> QED BY <3>1, <3>2
    <2>4. /\ x.pc = "poll" /\ ~x.req.dry => Cardinality(Behind(x.todo)') <= x.failed
          /\ x.pc = "answered" /\ x.said = "checked" /\ ~x.req.dry =>
               Cardinality(Behind({})') <= x.failed
      BY <2>1, BehindShrinks DEF SlotHolds
    <2>5. claimed \subseteq claimed'
      BY DEF Grows
    <2> QED BY <2>3, <2>4, <2>5 DEF SlotHolds, Names
  <1> QED BY <1>1, <1>2

\* One request moves on; nothing is forgotten.
LEMMA SlotKeeps ==
    ASSUME IngressInv, NEW s \in Slots, NEW x \in Handling \cup {Empty}, Goes(s, x),
           Grows, spoiled \subseteq spoiled', SlotHolds(x)',
           claimed' \subseteq claimed \cup (IF x.pc \in InHand THEN {delivery_id(x.req)} ELSE {}),
           slot[s].pc \in InHand =>
             \/ x.pc \in InHand /\ x.req = slot[s].req
             \/ delivery_id(slot[s].req) \in spoiled'
             \/ \A q \in Pushes : q = slot[s].req /\ Names(q) => HeardBy(q, {})'
    PROVE  IngressInv'
  <1>t. IngressTypeOK
    BY DEF IngressInv
  <1>1. slot'[s] = x /\ \A t \in Slots \ {s} : slot'[t] = slot[t]
    BY <1>t DEF Goes, IngressTypeOK
  <1>2. IngressTypeOK'
    BY <1>t DEF Goes, IngressTypeOK, Grows
  <1>3. SlotsHold'
    <2> SUFFICES ASSUME NEW t \in Slots, NEW y \in Handling \cup {Empty}, slot'[t] = y
                 PROVE  SlotHolds(y)'
      BY DEF SlotsHold
    <2>1. CASE t = s
      <3>1. y = x
        BY <1>1, <2>1
      <3> QED BY <3>1
    <2>2. CASE t # s
      <3>1. SlotHolds(y)
        BY <1>1, <2>2 DEF IngressInv, SlotsHold
      <3> QED BY <3>1, SlotStays
    <2> QED BY <2>1, <2>2
  <1>4. ClaimsHold'
    <2> SUFFICES ASSUME NEW r \in Pushes, Names(r), r.id # Missing,
                        delivery_id(r) \in claimed' \ spoiled'
                 PROVE  HeardBy(r, {})' \/ \E t \in Slots : Handles(t, r)'
      BY DEF ClaimsHold, Names, delivery_id
    <2>k. r.kind # "check"
      BY DEF Names
    <2>1. CASE delivery_id(r) \notin claimed
      <3>1. x.pc \in InHand /\ delivery_id(x.req) = delivery_id(r)
        BY <2>1
      <3>2. Handles(s, r)'
        BY <1>1, <3>1 DEF Handles, delivery_id
      <3> QED BY <3>2
    <2>2. CASE delivery_id(r) \in claimed /\ HeardBy(r, {})
      BY <2>2, <2>k, HeardStays
    <2>3. ASSUME NEW t \in Slots, Handles(t, r)
          PROVE  HeardBy(r, {})' \/ \E q \in Slots : Handles(q, r)'
      <3>1. CASE t # s
        <4>1. Handles(t, r)'
          BY <1>1, <2>3, <3>1 DEF Handles, delivery_id
        <4> QED BY <4>1
      <3>2. CASE t = s
        <4>1. /\ slot[s].pc \in InHand /\ delivery_id(slot[s].req) = delivery_id(r)
              /\ slot[s].req \in Pushes
          BY <1>t, <2>3, <3>2 DEF Handles, IngressTypeOK, Handling, Empty, InHand
        <4>2. CASE x.pc \in InHand /\ x.req = slot[s].req
          <5>1. Handles(s, r)'
            BY <1>1, <4>1, <4>2 DEF Handles, delivery_id
          <5> QED BY <5>1
        <4>3. CASE \A q \in Pushes : q = slot[s].req /\ Names(q) => HeardBy(q, {})'
          <5>1. PICK q \in Pushes : q = slot[s].req
            BY <4>1
          <5>2. HeardBy(q, {})'
            <6>1. Names(q)
              BY <2>k, <4>1, <5>1, SameDelivery
            <6> QED BY <4>3, <5>1, <6>1
          <5>3. into_release(q) = into_release(r) /\ Tenants(q) = Tenants(r)
            BY <2>k, <4>1, <5>1, SameDelivery
          <5> QED BY <5>2, <5>3 DEF HeardBy
        <4> QED BY <4>1, <4>2, <4>3
      <3> QED BY <3>1, <3>2
    <2> QED BY <2>1, <2>2, <2>3 DEF IngressInv, ClaimsHold, Grows
  <1> QED BY <1>2, <1>3, <1>4 DEF IngressInv

----------------------------------------------------------------------------
(* One lemma per kind of step.                                             *)

\* A step that leaves the tables alone.
LEMMA NothingForgotten ==
    ASSUME IngressInv, seen' = seen, claimed' = claimed
    PROVE  Grows
  BY DEF IngressInv, IngressTypeOK, Grows

\* What a slot that is busy holds.
LEMMA Busy ==
    ASSUME IngressInv, NEW s \in Slots, slot[s].pc # "idle"
    PROVE  slot[s] \in Handling
  BY DEF IngressInv, IngressTypeOK, Empty

\* What an answer writes in the slot (Replies).
AnsweredWith(y, status, said) == [y EXCEPT !.pc = "answered", !.status = status, !.said = said]

\* A request that is answered keeps what it was about.
LEMMA Answered ==
    ASSUME NEW y \in Handling, NEW status \in Nat, NEW said \in Said
    PROVE  LET x == AnsweredWith(y, status, said) IN
             /\ x \in Handling /\ x.pc = "answered" /\ x.said = said
             /\ x.req = y.req /\ x.tag = y.tag /\ x.failed = y.failed
  BY DEF Handling, AnsweredWith

\* What serving a watch writes in the slot (process_pushed_release, Poll).
Serve(y, w, n) == [y EXCEPT !.todo = @ \ {w}, !.sent = @ + IF w \in baselined THEN n ELSE 0]

\* A request that has served a watch has one watch less before it.
LEMMA Served ==
    ASSUME NEW y \in Handling, NEW w \in Watches, NEW n \in Nat
    PROVE  LET x == Serve(y, w, n) IN
             /\ x \in Handling /\ x.pc = y.pc /\ x.req = y.req /\ x.tag = y.tag
             /\ x.todo = y.todo \ {w} /\ x.failed = y.failed
  <1> DEFINE m == IF w \in baselined THEN n ELSE 0
  <1>1. y.sent + m \in Nat /\ y.todo \ {w} \in SUBSET Watches
    BY DEF Handling
  <1>2. Serve(y, w, n) = [y EXCEPT !.todo = @ \ {w}, !.sent = @ + m]
    BY DEF Serve
  <1> HIDE DEF m
  <1> QED BY <1>1, <1>2 DEF Handling

\* Events come in and are verified; checks come in.
LEMMA ArriveKeeps ==
    ASSUME IngressInv, NEW s \in Slots, NEW r \in Pushes, Arrive(s, r) \/ Check(s, r)
    PROVE  IngressInv'
  <1>1. CASE Arrive(s, r)
    <2>1. PICK x : x = [pc |-> IF verified(r) THEN "claim" ELSE "answered", req |-> r,
                        todo |-> {}, sent |-> 0, failed |-> 0, tag |-> Missing,
                        status |-> IF verified(r) THEN 0 ELSE 401, said |-> "refused"]
      OBVIOUS
    <2>2. x \in Handling /\ x.pc \in {"claim", "answered"} /\ x.said = "refused" /\ x.req = r
      BY <2>1 DEF Handling, Tags, Said
    <2>3. SlotHolds(x)'
      BY <1>1, <2>2 DEF SlotHolds, Arrive, Told
    <2> QED BY <1>1, <2>1, <2>2, <2>3, NothingForgotten, SlotKeeps DEF Arrive, InHand
  <1>2. CASE Check(s, r)
    <2>1. PICK x : x = [pc |-> IF r.dry THEN "poll" ELSE "flush", req |-> r, todo |-> Watches,
                        sent |-> 0, failed |-> 0, tag |-> Missing, status |-> 0,
                        said |-> "checking"]
      OBVIOUS
    <2>2. /\ x \in Handling /\ x.pc \in {"poll", "flush"} /\ x.req = r /\ x.todo = Watches
          /\ x.pc = "poll" => r.dry
      BY <2>1 DEF Handling, Tags, Said
    <2>3. SlotHolds(x)'
      BY <1>2, <2>2 DEF SlotHolds, Check
    <2> QED BY <1>2, <2>1, <2>2, <2>3, NothingForgotten, SlotKeeps DEF Check, InHand
  <1> QED BY <1>1, <1>2

\* An id is claimed, found claimed, or absent.
LEMMA ClaimKeeps ==
    ASSUME IngressInv, NEW s \in Slots, ensure_idempotent(s)
    PROVE  IngressInv'
  <1>t. slot[s] \in Handling /\ slot[s].req \in Pushes /\ slot[s].req.kind # "check"
        /\ seen \in Memory
    BY Busy DEF ensure_idempotent, IngressInv, IngressTypeOK, SlotsHold, SlotHolds, Handling
  <1>f. seen' = seen /\ spoiled' = spoiled /\ slot[s].pc = "claim"
    BY DEF ensure_idempotent
  <1>1. CASE Goes(s, [slot[s] EXCEPT !.pc = "parse"])
    <2>1. PICK x : x = [slot[s] EXCEPT !.pc = "parse"]
      OBVIOUS
    <2>2. x \in Handling /\ x.pc = "parse" /\ x.req = slot[s].req
      BY <1>t, <2>1 DEF Handling
    <2>3. SlotHolds(x)'
      BY <1>t, <2>2 DEF SlotHolds
    <2>4. claimed \subseteq claimed' /\ claimed' \subseteq claimed \cup {delivery_id(x.req)}
      BY <2>2 DEF ensure_idempotent
    <2>5. Grows
      BY <1>t, <1>f, <2>4 DEF Grows
    <2> QED BY <1>1, <1>f, <2>1, <2>2, <2>3, <2>4, <2>5, SlotKeeps DEF InHand
  <1>2. CASE /\ slot[s].req.id # Missing /\ delivery_id(slot[s].req) \in claimed
             /\ Replies(s, 200, "duplicate") /\ claimed' = claimed
    <2>1. PICK x : x = [slot[s] EXCEPT !.pc = "answered", !.status = 200, !.said = "duplicate"]
      OBVIOUS
    <2>2. x \in Handling /\ x.pc = "answered" /\ x.said = "duplicate" /\ x.req = slot[s].req
      <3>1. "duplicate" \in Said
        BY DEF Said
      <3>2. PICK y \in Handling : y = slot[s]
        BY <1>t
      <3>3. x = AnsweredWith(y, 200, "duplicate") /\ 200 \in Nat
        BY <2>1, <3>2 DEF AnsweredWith
      <3> QED BY <3>1, <3>2, <3>3, Answered
    <2>3. SlotHolds(x)'
      BY <1>t, <1>2, <2>2 DEF SlotHolds, Told, delivery_id
    <2> QED BY <1>2, <1>f, <2>1, <2>2, <2>3, NothingForgotten, SlotKeeps DEF InHand, Replies
  <1> QED BY <1>1, <1>2 DEF ensure_idempotent

\* A body is read; the watches it is for are looked up.
LEMMA IngestKeeps ==
    ASSUME IngressInv, NEW s \in Slots, ingest_mapped_release(s)
    PROVE  IngressInv'
  <1> DEFINE r == slot[s].req
             mapped == IF r.body.json THEN into_release(r) ELSE BadRequest
             todo == IF mapped.is = "release" THEN find_watches(r, mapped.key) ELSE {}
  <1>t. slot[s] \in Handling /\ r \in Pushes /\ r.kind # "check"
    BY Busy DEF ingest_mapped_release, IngressInv, SlotsHold, SlotHolds, Handling
  <1>f. /\ seen' = seen /\ spoiled' = spoiled /\ claimed' = claimed
        /\ slot[s].pc = "parse"
    BY DEF ingest_mapped_release
  <1>g. Grows
    BY <1>f, NothingForgotten
  <1>m. /\ mapped.is \in {"ignored", "bad", "release"}
        /\ mapped.is = "release" => Names(r) /\ mapped = into_release(r) /\ todo = Tenants(r)
        /\ Names(r) => mapped.is = "release"
        /\ todo \subseteq Watches
    <2>1. BadRequest.is = "bad"
      BY DEF BadRequest
    <2> QED BY <1>t, <2>1, Mapped, LookupFindsTenants DEF Names
  <1>1. ASSUME NEW status \in Nat, NEW said \in Said \ {"delivered", "nothing", "duplicate", "checked"},
               Replies(s, status, said), Names(r) => Tenants(r) = {}
        PROVE  IngressInv'
    <2>1. PICK x : x = [slot[s] EXCEPT !.pc = "answered", !.status = status, !.said = said]
      OBVIOUS
    <2>2. x \in Handling /\ x.pc = "answered" /\ x.said = said /\ x.req = r
      BY <1>t, <2>1 DEF Handling
    <2>3. SlotHolds(x)'
      BY <2>2 DEF SlotHolds, Told
    <2>4. \A q \in Pushes : q = slot[s].req /\ Names(q) => HeardBy(q, {})'
      BY <1>1 DEF HeardBy, Tenants
    <2> QED BY <1>1, <1>f, <1>g, <2>1, <2>2, <2>3, <2>4, SlotKeeps DEF Replies
  <1>2. CASE /\ mapped.is = "release"
             /\ Goes(s, [slot[s] EXCEPT !.pc = "deliver", !.todo = todo, !.tag = mapped.tag])
    <2>1. PICK x : x = [slot[s] EXCEPT !.pc = "deliver", !.todo = todo, !.tag = mapped.tag]
      OBVIOUS
    <2>2. mapped.tag \in Tags
      BY <1>t, <1>m, <1>2 DEF Tags
    <2>3. /\ x \in Handling /\ x.pc = "deliver" /\ x.req = r /\ x.todo = todo
          /\ x.tag = mapped.tag
      <3> HIDE DEF mapped, todo
      <3> QED BY <1>t, <1>m, <2>1, <2>2 DEF Handling
    <2>4. x.req \in Pushes /\ Names(x.req) /\ x.tag = into_release(x.req).tag /\ x.todo = Tenants(x.req)
      BY <1>t, <1>m, <1>2, <2>3
    <2>5. HeardBy(x.req, x.todo)'
      BY <2>4 DEF HeardBy, Tenants
    <2>6. SlotHolds(x)'
      BY <2>3, <2>4, <2>5 DEF SlotHolds, Names
    <2> QED BY <1>2, <1>f, <1>g, <2>1, <2>3, <2>6, SlotKeeps DEF InHand
  <1>3. \/ Replies(s, 200, "ignored") /\ mapped.is = "ignored"
        \/ Replies(s, 400, "bad") /\ mapped.is = "bad"
        \/ Replies(s, 404, "unknown") /\ mapped.is = "release" /\ todo = {}
        \/ /\ mapped.is = "release"
           /\ Goes(s, [slot[s] EXCEPT !.pc = "deliver", !.todo = todo, !.tag = mapped.tag])
    <2>1. CASE mapped.is = "ignored"
      BY <2>1 DEF ingest_mapped_release
    <2>2. CASE mapped.is = "bad"
      BY <2>2 DEF ingest_mapped_release
    <2>3. CASE mapped.is = "release" /\ todo = {}
      BY <2>3 DEF ingest_mapped_release
    <2>4. CASE mapped.is = "release" /\ todo # {}
      BY <2>4 DEF ingest_mapped_release
    <2> QED BY <1>m, <2>1, <2>2, <2>3, <2>4
  <1>4. /\ "ignored" \in Said \ {"delivered", "nothing", "duplicate", "checked"}
        /\ "bad" \in Said \ {"delivered", "nothing", "duplicate", "checked"}
        /\ "unknown" \in Said \ {"delivered", "nothing", "duplicate", "checked"}
    BY DEF Said
  <1> HIDE DEF mapped, todo, r
  <1>5. CASE Replies(s, 200, "ignored") /\ mapped.is = "ignored"
    BY <1>m, <1>1, <1>4, <1>5 DEF r
  <1>6. CASE Replies(s, 400, "bad") /\ mapped.is = "bad"
    BY <1>m, <1>1, <1>4, <1>6 DEF r
  <1>7. CASE Replies(s, 404, "unknown") /\ mapped.is = "release" /\ todo = {}
    BY <1>m, <1>1, <1>4, <1>7 DEF r
  <1> QED BY <1>2, <1>3, <1>5, <1>6, <1>7

\* A watch admits what is new to it: the tables of the others stay.
LEMMA Remembers ==
    ASSUME seen \in Memory, NEW w \in Watches, NEW new \in SUBSET Admits[w],
           seen' = [seen EXCEPT ![w] = @ \cup new], claimed' = claimed
    PROVE  Grows /\ seen'[w] = seen[w] \cup new
  <1>1. new \subseteq UNION {Admits[v] : v \in Watches}
    OBVIOUS
  <1> QED BY <1>1 DEF Grows, Memory

\* One watch of an event is served.
LEMMA ProcessKeeps ==
    ASSUME IngressInv, NEW s \in Slots, NEW w \in Watches, process_pushed_release(s, w)
    PROVE  IngressInv'
  <1>1. PICK new : new = {slot[s].tag} \cap (Admits[w] \ seen[w])
    OBVIOUS
  <1>t. /\ slot[s] \in Handling /\ slot[s].pc = "deliver" /\ slot[s].req \in Pushes
        /\ seen \in Memory
    BY Busy DEF process_pushed_release, IngressInv, IngressTypeOK, Handling
  <1>h. /\ Names(slot[s].req) /\ slot[s].tag = into_release(slot[s].req).tag
        /\ HeardBy(slot[s].req, slot[s].todo)
    BY <1>t DEF IngressInv, SlotsHold, SlotHolds
  <1>2. Cardinality(new) \in Nat
    <2>1. PICK tag : tag = slot[s].tag
      OBVIOUS
    <2>2. new \subseteq {tag} /\ IsFiniteSet({tag})
      BY <1>1, <2>1, FS_Singleton
    <2>3. IsFiniteSet(new)
      BY <2>2, FS_Subset
    <2> QED BY <2>3, FS_CardinalityType
  <1>3. Grows /\ seen'[w] = seen[w] \cup new
    <2>1. new \in SUBSET Admits[w]
      BY <1>1
    <2>2. seen' = [seen EXCEPT ![w] = @ \cup new] /\ claimed' = claimed
      BY <1>1 DEF process_pushed_release, Hear
    <2> QED BY <1>t, <2>1, <2>2, Remembers
  <1>4. PICK x : x = Serve(slot[s], w, Cardinality(new))
    OBVIOUS
  <1>5. /\ x \in Handling /\ x.pc = "deliver" /\ x.req = slot[s].req /\ x.tag = slot[s].tag
        /\ x.todo = slot[s].todo \ {w}
    <2>1. PICK y \in Handling, n \in Nat : y = slot[s] /\ n = Cardinality(new)
      BY <1>t, <1>2
    <2>2. x = Serve(y, w, n)
      BY <1>4, <2>1
    <2> QED BY <1>t, <2>1, <2>2, Served
  <1>6. HeardBy(x.req, x.todo)'
    <2>1. HeardBy(x.req, slot[s].todo)
      BY <1>h, <1>5
    <2>t. slot[s].todo \in SUBSET Watches
      BY <1>t DEF Handling
    <2>2. PICK q \in Pushes, todo \in SUBSET Watches : q = x.req /\ todo = slot[s].todo
      BY <1>t, <1>5, <2>t
    <2>3. q.kind # "check" /\ HeardBy(q, todo)
      BY <1>h, <1>5, <2>1, <2>2 DEF Names
    <2>4. HeardBy(q, todo)'
      BY <1>3, <2>3, HeardStays
    <2>5. Heard(w, into_release(q).tag)'
      BY <1>1, <1>3, <1>h, <1>5, <2>2 DEF Heard
    <2>6. HeardBy(q, todo \ {w})'
      BY <2>4, <2>5 DEF HeardBy
    <2> QED BY <1>5, <2>2, <2>6
  <1>7. SlotHolds(x)'
    BY <1>h, <1>5, <1>6 DEF SlotHolds, Names
  <1>8. Goes(s, x) /\ claimed' = claimed /\ spoiled' = spoiled
    BY <1>1, <1>4 DEF process_pushed_release, Hear, Serve
  <1> QED BY <1>3, <1>5, <1>7, <1>8, SlotKeeps DEF InHand

\* Every watch is served: the forge is told.
LEMMA DeliveredKeeps ==
    ASSUME IngressInv, NEW s \in Slots, Delivered(s)
    PROVE  IngressInv'
  <1>t. /\ slot[s] \in Handling /\ slot[s].pc = "deliver" /\ slot[s].req \in Pushes
        /\ slot[s].todo = {}
    BY Busy DEF Delivered, IngressInv, Handling
  <1>h. /\ Names(slot[s].req) /\ slot[s].tag = into_release(slot[s].req).tag
        /\ HeardBy(slot[s].req, {})
    BY <1>t DEF IngressInv, SlotsHold, SlotHolds
  <1>f. /\ seen' = seen /\ spoiled' = spoiled /\ claimed' = claimed
    BY DEF Delivered
  <1>g. Grows
    BY <1>f, NothingForgotten
  <1>1. PICK said \in Told : Replies(s, 200, said)
    BY DEF Delivered, Told
  <1>2. PICK x : x = [slot[s] EXCEPT !.pc = "answered", !.status = 200, !.said = said]
    OBVIOUS
  <1>3. /\ x \in Handling /\ x.pc = "answered" /\ x.said = said /\ x.req = slot[s].req
        /\ x.tag = slot[s].tag
    <2>1. said \in Said
      BY DEF Told, Said
    <2>2. PICK y \in Handling : y = slot[s]
      BY <1>t
    <2>3. x = AnsweredWith(y, 200, said) /\ 200 \in Nat
      BY <1>2, <2>2 DEF AnsweredWith
    <2> QED BY <2>1, <2>2, <2>3, Answered
  <1>4. \A q \in Pushes : q = slot[s].req /\ Names(q) => HeardBy(q, {})'
    BY <1>g, <1>h, HeardStays DEF Names
  <1>5. SlotHolds(x)'
    <2>1. x.req \in Pushes /\ HeardBy(x.req, {})'
      BY <1>t, <1>h, <1>3, <1>4
    <2> QED BY <1>3, <1>h, <2>1 DEF SlotHolds, Told, Names
  <1> QED BY <1>1, <1>2, <1>3, <1>4, <1>5, <1>f, <1>g, SlotKeeps DEF Replies

\* An error of the store spoils the delivery.
LEMMA StoreFailsKeeps ==
    ASSUME IngressInv, NEW s \in Slots, StoreFails(s)
    PROVE  IngressInv'
  <1>t. /\ slot[s] \in Handling /\ slot[s].pc \in {"claim", "deliver", "flush"}
        /\ slot[s].req \in Pushes
    BY Busy DEF StoreFails, Handling
  <1>f. /\ seen' = seen /\ claimed' = claimed
        /\ spoiled' = spoiled \cup DeliveryOf(slot[s].req)
    BY DEF StoreFails
  <1>1. PICK x : x = [slot[s] EXCEPT !.pc = "answered", !.status = 500, !.said = "failed"]
    OBVIOUS
  <1>2. x \in Handling /\ x.pc = "answered" /\ x.said = "failed" /\ x.req = slot[s].req
    <2>1. "failed" \in Said
      BY DEF Said
    <2>2. PICK y \in Handling : y = slot[s]
      BY <1>t
    <2>3. x = AnsweredWith(y, 500, "failed") /\ 500 \in Nat
      BY <1>1, <2>2 DEF AnsweredWith
    <2> QED BY <2>1, <2>2, <2>3, Answered
  <1>3. SlotHolds(x)'
    BY <1>2 DEF SlotHolds, Told
  <1>4. slot[s].pc \in InHand => delivery_id(slot[s].req) \in spoiled'
    <2>1. slot[s].pc = "deliver" => slot[s].req.kind # "check"
      BY <1>t DEF IngressInv, SlotsHold, SlotHolds
    <2> QED BY <1>t, <1>f, <2>1 DEF InHand, DeliveryOf
  <1>5. Goes(s, x)
    BY <1>1 DEF StoreFails, Replies
  <1> QED BY <1>2, <1>3, <1>4, <1>5, <1>f, NothingForgotten, SlotKeeps

\* A crash spoils everything in hand.
LEMMA CrashKeeps ==
    ASSUME IngressInv, Crash
    PROVE  IngressInv'
  <1>t. IngressTypeOK
    BY DEF IngressInv
  <1>f. /\ seen' = seen /\ claimed' = claimed /\ spoiled \subseteq spoiled'
        /\ \A s \in Slots : slot'[s] = Empty
        /\ \A s \in Slots : slot[s].pc \notin {"idle", "answered"} =>
             DeliveryOf(slot[s].req) \subseteq spoiled'
    BY DEF Crash
  <1>1. IngressTypeOK'
    BY <1>t DEF Crash, IngressTypeOK
  <1>2. SlotsHold'
    BY <1>f DEF SlotsHold, SlotHolds, Empty
  <1>3. \A s \in Slots : slot[s].pc \in InHand => delivery_id(slot[s].req) \in spoiled'
    <2> TAKE s \in Slots
    <2>1. slot[s].pc \in InHand => slot[s].req.kind # "check"
      BY <1>t DEF IngressInv, SlotsHold, SlotHolds, IngressTypeOK, InHand
    <2> QED BY <1>f, <2>1 DEF InHand, DeliveryOf
  <1>4. ClaimsHold'
    <2> SUFFICES ASSUME NEW r \in Pushes, Names(r), r.id # Missing,
                        delivery_id(r) \in claimed' \ spoiled'
                 PROVE  HeardBy(r, {})'
      BY DEF ClaimsHold, Names, delivery_id
    <2>1. HeardBy(r, {}) \/ \E s \in Slots : Handles(s, r)
      BY <1>f DEF IngressInv, ClaimsHold
    <2>2. ~\E s \in Slots : Handles(s, r)
      BY <1>3 DEF Handles
    <2>3. Grows
      BY <1>f, NothingForgotten
    <2> QED BY <2>1, <2>2, <2>3, HeardStays DEF Names
  <1> QED BY <1>1, <1>2, <1>4 DEF IngressInv

\* A check flushes, then goes to one source after the other.
LEMMA CheckKeeps ==
    ASSUME IngressInv, NEW s \in Slots,
           \/ Flush(s) \/ Checked(s)
           \/ \E w \in Watches : Poll(s, w) \/ PollFails(s, w)
    PROVE  IngressInv'
  <1>t. /\ slot[s] \in Handling /\ slot[s].pc \in {"flush", "poll"}
        /\ slot[s].req \in Pushes /\ slot[s].todo \subseteq Watches
        /\ slot[s].failed \in Nat /\ seen \in Memory
    BY Busy DEF Flush, Checked, Poll, PollFails, IngressInv, IngressTypeOK, Handling
  <1>h. /\ slot[s].req.kind = "check"
        /\ slot[s].pc = "flush" => slot[s].todo = Watches
        /\ slot[s].pc = "poll" /\ ~slot[s].req.dry =>
             Cardinality(Behind(slot[s].todo)) <= slot[s].failed
    BY <1>t DEF IngressInv, SlotsHold, SlotHolds
  <1>f. spoiled' = spoiled /\ claimed' = claimed
    BY DEF Flush, Checked, Poll, PollFails
  <1>1. ASSUME NEW x \in Handling, Goes(s, x), Grows, SlotHolds(x)', x.pc \notin InHand
        PROVE  IngressInv'
    BY <1>1, <1>t, <1>f, SlotKeeps DEF InHand
  <1>2. CASE Flush(s)
    <2>1. PICK x : x = [slot[s] EXCEPT !.pc = "poll"]
      OBVIOUS
    <2>2. x \in Handling /\ x.pc = "poll" /\ x.req = slot[s].req /\ x.todo = Watches /\ x.failed \in Nat
      BY <1>2, <1>t, <1>h, <2>1 DEF Flush, Handling
    <2>3. Cardinality(Behind(Watches)') <= x.failed
      <3>1. Behind(Watches)' = {}
        BY DEF Behind
      <3> QED BY <2>2, <3>1, FS_EmptySet
    <2>4. SlotHolds(x)'
      BY <1>h, <2>2, <2>3 DEF SlotHolds
    <2> QED BY <1>1, <1>2, <1>f, <2>1, <2>2, <2>4, NothingForgotten DEF Flush, InHand
  <1>3. CASE Checked(s)
    <2>1. /\ \/ Replies(s, 502, "failed") \/ Replies(s, 200, "checked")
          /\ slot[s].todo = {} /\ slot[s].pc = "poll" /\ seen' = seen
      BY <1>3 DEF Checked
    <2>2. ASSUME NEW status \in Nat, NEW said \in {"failed", "checked"}, Replies(s, status, said)
          PROVE  IngressInv'
      <3>1. PICK x : x = [slot[s] EXCEPT !.pc = "answered", !.status = status, !.said = said]
        OBVIOUS
      <3>2. /\ x \in Handling /\ x.pc = "answered" /\ x.said = said /\ x.req = slot[s].req
            /\ x.failed = slot[s].failed
        <4>1. said \in Said
          BY DEF Said
        <4>2. PICK y \in Handling : y = slot[s]
          BY <1>t
        <4>3. x = AnsweredWith(y, status, said) /\ status \in Nat
          BY <3>1, <4>2 DEF AnsweredWith
        <4> QED BY <4>1, <4>2, <4>3, Answered
      <3>3. Grows
        BY <1>f, <2>1, NothingForgotten
      <3>4. ~x.req.dry => Cardinality(Behind({})') <= x.failed
        BY <1>t, <1>h, <2>1, <3>2, <3>3, BehindShrinks
      <3>5. SlotHolds(x)'
        BY <3>2, <3>4 DEF SlotHolds, Told
      <3> QED BY <1>1, <2>2, <3>1, <3>2, <3>3, <3>5 DEF Replies, InHand
    <2> QED BY <2>1, <2>2
  <1>4. ASSUME NEW w \in Watches, PollFails(s, w) PROVE IngressInv'
    <2>1. seen' = seen /\ w \in slot[s].todo /\ slot[s].pc = "poll"
      BY <1>4 DEF PollFails
    <2>g. Grows
      BY <1>f, <2>1, NothingForgotten
    <2>2. CASE slot[s].req.dry
      <3>1. PICK x : x = [slot[s] EXCEPT !.pc = "answered", !.status = 502, !.said = "failed"]
        OBVIOUS
      <3>2. x \in Handling /\ x.pc = "answered" /\ x.said = "failed"
        <4>1. "failed" \in Said
          BY DEF Said
        <4>2. PICK y \in Handling : y = slot[s]
          BY <1>t
        <4>3. x = AnsweredWith(y, 502, "failed") /\ 502 \in Nat
          BY <3>1, <4>2 DEF AnsweredWith
        <4> QED BY <4>1, <4>2, <4>3, Answered
      <3>3. SlotHolds(x)'
        BY <3>2 DEF SlotHolds, Told
      <3> QED BY <1>1, <1>4, <2>2, <2>g, <3>1, <3>2, <3>3 DEF PollFails, Replies, InHand
    <2>3. CASE ~slot[s].req.dry
      <3>1. PICK x : x = [slot[s] EXCEPT !.todo = @ \ {w}, !.failed = @ + 1]
        OBVIOUS
      <3>2. /\ x \in Handling /\ x.pc = "poll" /\ x.req = slot[s].req
            /\ x.todo = slot[s].todo \ {w} /\ x.failed = slot[s].failed + 1
        <4>1. PICK y \in Handling : y = slot[s]
          BY <1>t
        <4>2. y.failed + 1 \in Nat /\ y.todo \ {w} \in SUBSET Watches
          BY DEF Handling
        <4>3. x = [y EXCEPT !.todo = @ \ {w}, !.failed = @ + 1]
          BY <3>1, <4>1
        <4>4. /\ x \in Handling /\ x.pc = y.pc /\ x.req = y.req
              /\ x.todo = y.todo \ {w} /\ x.failed = y.failed + 1
          BY <4>2, <4>3 DEF Handling
        <4> QED BY <2>1, <4>1, <4>4
      <3>3. Cardinality(Behind(x.todo)) <= x.failed
        <4>1. PICK before, after :
                before = Behind(slot[s].todo) /\ after = Behind(x.todo)
          OBVIOUS
        <4>2. after \subseteq before \cup {w}
          BY <3>2, <4>1 DEF Behind
        <4>3. IsFiniteSet(before) /\ Cardinality(before) \in Nat
          BY <4>1, FewBehind
        <4>4. /\ IsFiniteSet(before \cup {w})
              /\ Cardinality(before \cup {w}) \in {Cardinality(before), Cardinality(before) + 1}
          BY <4>3, FS_AddElement
        <4>5. Cardinality(after) <= Cardinality(before \cup {w}) /\ Cardinality(after) \in Nat
          BY <4>1, <4>2, <4>4, FewBehind, FS_Subset
        <4>6. Cardinality(before) <= slot[s].failed
          BY <1>h, <2>1, <2>3, <4>1
        <4> QED BY <1>t, <3>2, <4>1, <4>3, <4>4, <4>5, <4>6
      <3>4. Cardinality(Behind(x.todo)') <= x.failed
        <4>1. x.failed \in Nat
          BY <1>t, <3>2
        <4> QED BY <2>g, <3>3, <4>1, BehindShrinks
      <3>5. SlotHolds(x)'
        BY <1>h, <3>2, <3>4 DEF SlotHolds
      <3> QED BY <1>1, <1>4, <2>3, <2>g, <3>1, <3>2, <3>5 DEF PollFails, InHand
    <2> QED BY <2>2, <2>3
  <1>5. ASSUME NEW w \in Watches, Poll(s, w) PROVE IngressInv'
    <2>1. PICK new : new = IF slot[s].req.dry THEN {} ELSE (Listed[w] \cap Admits[w]) \ seen[w]
      OBVIOUS
    <2>2. new \subseteq Admits[w] /\ Cardinality(new) \in Nat
      <3>1. new \subseteq Listed[w] /\ IsFiniteSet(Listed[w])
        BY <2>1, IngressAssumption
      <3> QED BY <2>1, <3>1, FS_Subset, FS_CardinalityType
    <2>3. Grows /\ seen'[w] = seen[w] \cup new
      <3>1. CASE slot[s].req.dry
        <4>1. seen' = seen
          BY <1>5, <3>1 DEF Poll
        <4> QED BY <1>f, <2>1, <3>1, <4>1, NothingForgotten
      <3>2. CASE ~slot[s].req.dry
        <4>1. seen' = [seen EXCEPT ![w] = @ \cup new]
          BY <1>5, <2>1, <3>2 DEF Poll, Hear
        <4> QED BY <1>f, <1>t, <2>2, <4>1, Remembers
      <3> QED BY <3>1, <3>2
    <2>4. PICK x \in {Serve(slot[s], w, Cardinality(new)), [slot[s] EXCEPT !.todo = @ \ {w}]} :
              Goes(s, x)
      BY <1>5, <2>1 DEF Poll, Hear, Serve
    <2>5. /\ x \in Handling /\ x.pc = "poll" /\ x.req = slot[s].req
          /\ x.todo = slot[s].todo \ {w} /\ x.failed = slot[s].failed
      <3>1. slot[s].pc = "poll"
        BY <1>5 DEF Poll
      <3>2. PICK y \in Handling, n \in Nat : y = slot[s] /\ n = Cardinality(new)
        BY <1>t, <2>2
      <3>3. CASE x = Serve(y, w, n)
        BY <3>1, <3>2, <3>3, Served
      <3>4. CASE x = [y EXCEPT !.todo = @ \ {w}]
        <4>1. y.todo \ {w} \in SUBSET Watches
          BY DEF Handling
        <4> QED BY <3>1, <3>2, <3>4, <4>1 DEF Handling
      <3> QED BY <2>4, <3>2, <3>3, <3>4
    <2>6. ~x.req.dry => Cardinality(Behind(x.todo)') <= x.failed
      <3> SUFFICES ASSUME ~x.req.dry PROVE Cardinality(Behind(x.todo)') <= x.failed
        OBVIOUS
      <3>1. \A tag \in Listed[w] : Heard(w, tag)'
        BY <2>1, <2>3, <2>5 DEF Heard
      <3>2. PICK todo : todo = slot[s].todo
        OBVIOUS
      <3>3. Behind(x.todo)' \subseteq Behind(todo)'
        BY <2>5, <3>1, <3>2 DEF Behind
      <3>4. Cardinality(Behind(todo)') <= slot[s].failed
        <4>1. Cardinality(Behind(todo)) <= slot[s].failed
          BY <1>5, <1>h, <2>5, <3>2 DEF Poll
        <4>2. PICK n \in Nat : n = slot[s].failed
          BY <1>t
        <4> QED BY <2>3, <4>1, <4>2, BehindShrinks
      <3>5. /\ IsFiniteSet(Behind(todo)') /\ Cardinality(Behind(todo)') \in Nat
            /\ IsFiniteSet(Behind(x.todo)')
        <4>1. Behind(todo)' \subseteq Watches /\ Behind(x.todo)' \subseteq Watches
          BY DEF Behind
        <4> QED BY <4>1, IngressAssumption, FS_Subset, FS_CardinalityType
      <3>6. /\ Cardinality(Behind(x.todo)') <= Cardinality(Behind(todo)')
            /\ Cardinality(Behind(x.todo)') \in Nat
        BY <3>3, <3>5, FS_Subset, FS_CardinalityType
      <3> QED BY <1>t, <2>5, <3>4, <3>5, <3>6
    <2>7. SlotHolds(x)'
      BY <1>h, <2>5, <2>6 DEF SlotHolds
    <2> QED BY <1>1, <2>3, <2>4, <2>5, <2>7 DEF InHand
  <1> QED BY <1>2, <1>3, <1>4, <1>5

\* A client has its answer and goes.
LEMMA CloseKeeps ==
    ASSUME IngressInv, NEW s \in Slots, Close(s)
    PROVE  IngressInv'
  <1>1. PICK x : x = Empty
    OBVIOUS
  <1>2. x.pc = "idle" /\ SlotHolds(x)'
    BY <1>1 DEF SlotHolds, Empty
  <1>3. Goes(s, x) /\ seen' = seen /\ claimed' = claimed /\ spoiled' = spoiled
        /\ slot[s].pc = "answered"
    BY <1>1 DEF Close
  <1> QED BY <1>1, <1>2, <1>3, NothingForgotten, SlotKeeps DEF InHand

----------------------------------------------------------------------------
(* The theorems.                                                           *)

\* Nothing has come in, nothing is claimed.
LEMMA InitIngress == IngressInit => IngressInv
  BY DEF IngressInit, IngressInv, IngressTypeOK, Memory, SlotsHold, SlotHolds, ClaimsHold, Empty

\* What every request in hand has done and found, and what every claimed id
\* stands for, whichever requests overlap, statements fail or process dies.
THEOREM IngressInvariance == IngressSpec => []IngressInv
  <1>1. ASSUME IngressInv, UNCHANGED ingressVars
        PROVE  IngressInv'
    <2>1. Grows /\ slot' = slot /\ spoiled' = spoiled
      BY <1>1, NothingForgotten DEF ingressVars
    <2>2. IngressTypeOK'
      BY <1>1 DEF ingressVars, IngressInv, IngressTypeOK
    <2>3. SlotsHold'
      BY <1>1, <2>1, SlotStays DEF IngressInv, SlotsHold
    <2>4. ClaimsHold'
      BY <1>1 DEF ingressVars, IngressInv, ClaimsHold, Handles, HeardBy, Heard
    <2> QED BY <2>2, <2>3, <2>4 DEF IngressInv
  <1>2. ASSUME IngressInv, [IngressNext]_ingressVars
        PROVE  IngressInv'
    BY <1>1, <1>2, ArriveKeeps, ClaimKeeps, IngestKeeps, ProcessKeeps, DeliveredKeeps,
       StoreFailsKeeps, CrashKeeps, CheckKeeps, CloseKeeps DEF IngressNext
  <1> QED BY <1>2, InitIngress, PTL DEF IngressSpec

\* An answer to a forge or to an operator never says more than was done
\* (webhook.rs, handlers.rs): a push reported as handled reached every watch of
\* its repository, a duplicate turned away was handled before, and a check
\* counts at least the sources it left behind.
THEOREM AnswersAlwaysTrue == IngressSpec => []AnswersAreTrue
  <1>1. ASSUME IngressInv PROVE AnswersAreTrue
    <2>1. ASSUME NEW s \in Slots, slot[s].pc = "answered"
          PROVE  slot[s] \in Handling /\ SlotHolds(slot[s])
      BY <1>1, <2>1, Busy DEF IngressInv, SlotsHold
    <2>2. EveryTenantHears
      BY <2>1 DEF EveryTenantHears, SlotHolds, Told, HeardBy
    <2>3. DuplicateIsTruthful
      <3> SUFFICES ASSUME NEW s \in Slots, slot[s].pc = "answered", slot[s].said = "duplicate",
                          slot[s].req.body.json, into_release(slot[s].req).is = "release",
                          delivery_id(slot[s].req) \notin spoiled,
                          \A t \in Slots : slot[t].pc \in InHand => slot[t].req.id # slot[s].req.id
                   PROVE  HeardBy(slot[s].req, {})
        BY DEF DuplicateIsTruthful, HeardBy, InHand
      <3>1. /\ slot[s].req \in Pushes /\ Names(slot[s].req) /\ slot[s].req.id # Missing
            /\ delivery_id(slot[s].req) \in claimed \ spoiled
        BY <2>1 DEF SlotHolds, Handling, Names
      <3>2. ~\E t \in Slots : Handles(t, slot[s].req)
        BY DEF Handles, delivery_id
      <3> QED BY <1>1, <3>1, <3>2 DEF IngressInv, ClaimsHold
    <2>4. CheckCoversAll
      <3> SUFFICES ASSUME NEW s \in Slots, slot[s].pc = "answered", slot[s].said = "checked",
                          ~slot[s].req.dry
                   PROVE  Cardinality(Behind({})) <= slot[s].failed
        <4>1. Behind({}) = {w \in Watches : \E tag \in Listed[w] : ~Heard(w, tag)}
          BY DEF Behind
        <4> QED BY <4>1 DEF CheckCoversAll
      <3> QED BY <2>1 DEF SlotHolds
    <2> QED BY <2>2, <2>3, <2>4 DEF AnswersAreTrue
  <1> QED BY <1>1, IngressInvariance, PTL

----------------------------------------------------------------------------
(* Access: what a request carries, and what a role amounts to.             *)

\* A call is its six fields.
CallShape ==
    call = [cfg |-> call.cfg, who |-> call.who, route |-> call.route, signed |-> call.signed,
            org |-> call.org, answer |-> call.answer]

AccessInv ==
    /\ CallShape
    /\ call.cfg \in ServedConfigs /\ Serves(call.cfg) /\ call.who \in Callers
    /\ call.signed \in BOOLEAN /\ call.route \in Routes /\ call.org \in OrgIds
    /\ call.answer \in {0, router(call.cfg, call.who, call.signed, call.route, call.org)}

\* The claims of a caller grant the role, on the organization or the instance.
Claims(cfg, who, minimum, org) ==
    \/ who.bearer = "key" /\ cfg.key
    \/ who.bearer = "session" /\ cfg.session /\ who.current /\ who.role >= minimum
    \/ who.bearer = "oidc" /\ cfg.oidc
       /\ (cfg.fallback >= minimum
           \/ \E g \in who.groups : g.role >= minimum /\ g.org \in {org, NoOrg})

Places == OrgIds \cup {NoOrg}

\* The greatest of a few roles is one of them.
LEMMA MaxOfRoles ==
    ASSUME NEW S \in SUBSET (0..3), S # {}
    PROVE  Max(S) \in S /\ \A y \in S : y <= Max(S)
  <1>1. \E x \in S : \A y \in S : x >= y
    <2>1. CASE 3 \in S
      BY <2>1
    <2>2. CASE 3 \notin S /\ 2 \in S
      BY <2>2
    <2>3. CASE 3 \notin S /\ 2 \notin S /\ 1 \in S
      BY <2>3
    <2>4. CASE 3 \notin S /\ 2 \notin S /\ 1 \notin S
      <3>1. \A x \in S : x = 0
        BY <2>4
      <3>2. PICK x \in S : TRUE
        OBVIOUS
      <3> QED BY <3>1, <3>2
    <2> QED BY <2>1, <2>2, <2>3, <2>4
  <1>2. Max(S) = CHOOSE x \in S : \A y \in S : x >= y
    BY DEF Max
  <1>3. Max(S) \in S /\ \A y \in S : Max(S) >= y
    BY <1>1, <1>2
  <1> QED BY <1>3

\* The roles of an OIDC caller are at least what a group grants, and no more.
LEMMA RolesAreGroups ==
    ASSUME NEW groups \in SUBSET RoleGrants, NEW fallback \in AppRoles,
           NEW minimum \in AppRoles, NEW org \in Places
    PROVE  LET role == for_org(resolve_resolved_roles(groups, fallback), org) IN
           /\ role \in AppRoles
           /\ role >= minimum <=>
                \/ fallback >= minimum
                \/ \E g \in groups : g.role >= minimum /\ g.org \in {org, NoOrg}
  <1> DEFINE here(o) == {g.role : g \in {h \in groups : h.org = o}}
             all == {fallback} \cup here(NoOrg)
             own == {0} \cup here(org)
             roles == resolve_resolved_roles(groups, fallback)
  <1>r. here(NoOrg) \subseteq AppRoles /\ here(org) \subseteq AppRoles
    BY DEF RoleGrants
  <1>1. Max(all) \in all /\ \A y \in all : y <= Max(all)
    <2>1. all \in SUBSET (0..3) /\ all # {}
      BY <1>r DEF AppRoles
    <2> HIDE DEF all
    <2> QED BY <2>1, MaxOfRoles
  <1>2. Max(own) \in own /\ \A y \in own : y <= Max(own)
    <2>1. own \in SUBSET (0..3) /\ own # {}
      BY <1>r DEF AppRoles
    <2> HIDE DEF own
    <2> QED BY <2>1, MaxOfRoles
  <1>3. /\ roles.global = Max(all)
        /\ org \in OrgIds => roles.per_org[org] = Max(own)
    BY DEF resolve_resolved_roles, resolve_app_role
  <1>4. \A n \in AppRoles : Max(all) >= n <=>
          \/ fallback >= n \/ \E g \in groups : g.role >= n /\ g.org = NoOrg
    <2> TAKE n \in AppRoles
    <2>1. \A r \in all : r \in Nat
      <3> HIDE DEF here
      <3> QED BY <1>r DEF AppRoles
    <2>2. Max(all) >= n <=> \E r \in all : r >= n
      <3> HIDE DEF all
      <3> QED BY <1>1, <2>1 DEF AppRoles
    <2>3. (\E r \in all : r >= n) <=>
             (fallback >= n \/ \E g \in groups : g.role >= n /\ g.org = NoOrg)
      OBVIOUS
    <2> QED BY <2>2, <2>3
  <1>5. \A n \in AppRoles : Max(own) >= n <=> \E g \in groups : g.role >= n /\ g.org = org
    <2> TAKE n \in AppRoles
    <2>1. \A r \in own : r \in Nat
      <3> HIDE DEF here
      <3> QED BY <1>r DEF AppRoles
    <2>2. Max(own) >= n <=> \E r \in own : r >= n
      <3> HIDE DEF own
      <3> QED BY <1>2, <2>1 DEF AppRoles
    <2>3. (\E r \in own : r >= n) <=> \E g \in groups : g.role >= n /\ g.org = org
      <3>1. ~(0 >= n)
        BY DEF AppRoles
      <3>2. (\E r \in own : r >= n) <=> \E r \in here(org) : r >= n
        <4> HIDE DEF here
        <4> QED BY <3>1
      <3>3. (\E r \in here(org) : r >= n) <=> \E g \in groups : g.role >= n /\ g.org = org
        OBVIOUS
      <3> QED BY <3>2, <3>3
    <2> QED BY <2>2, <2>3
  <1>6. Max(all) \in AppRoles /\ Max(own) \in 0..3
    <2>1. all \subseteq AppRoles /\ own \subseteq 0..3
      <3> HIDE DEF here
      <3> QED BY <1>r DEF AppRoles
    <2> HIDE DEF all, own, here
    <2> QED BY <1>1, <1>2, <2>1
  <1> HIDE DEF all, own, here
  <1>7. CASE org = NoOrg
    BY <1>3, <1>4, <1>6, <1>7 DEF for_org
  <1>8. CASE org \in OrgIds
    <2>1. org # NoOrg
      BY <1>8, AccessAssumption
    <2> DEFINE both == {Max(all), Max(own)}
    <2>2. Max(both) \in both /\ \A y \in both : y <= Max(both)
      <3>1. both \in SUBSET (0..3) /\ both # {}
        BY <1>6 DEF AppRoles
      <3> HIDE DEF both
      <3> QED BY <3>1, MaxOfRoles
    <2>3. for_org(roles, org) = Max(both)
      BY <1>3, <1>8, <2>1 DEF for_org
    <2>4. Max(both) \in AppRoles
      BY <1>6, <2>2 DEF AppRoles
    <2>5. Max(both) >= minimum <=> (Max(all) >= minimum \/ Max(own) >= minimum)
      BY <1>6, <2>2 DEF AppRoles
    <2> QED BY <1>4, <1>5, <2>3, <2>4, <2>5
  <1> QED BY <1>7, <1>8 DEF Places

\* Who is authorized is who the claims say, but on an instance without credentials.
LEMMA AuthorizedAsClaimed ==
    ASSUME NEW cfg \in ServedConfigs, NEW who \in Credentials,
           NEW minimum \in AppRoles, NEW org \in Places,
           resolve_auth_principal(cfg, who).kind # "refused"
    PROVE  authorize_for_org(resolve_auth_principal(cfg, who), minimum, org) <=>
             ~auth_configured(cfg) \/ Claims(cfg, who, minimum, org)
  <1> DEFINE p == resolve_auth_principal(cfg, who)
  <1>c. /\ cfg.key \in BOOLEAN /\ cfg.oidc \in BOOLEAN /\ cfg.session \in BOOLEAN
        /\ cfg.fallback \in AppRoles
    BY AccessAssumption
  <1>w. /\ who.bearer \in {"none", "junk", "key", "session", "oidc"}
        /\ who.bearer = "session" => who.current \in BOOLEAN /\ who.role \in AppRoles
        /\ who.bearer = "oidc" => who.groups \in SUBSET RoleGrants
    BY DEF Credentials
  <1>1. CASE ~auth_configured(cfg)
    BY <1>1 DEF resolve_auth_principal, authorize_for_org
  <1>2. CASE auth_configured(cfg) /\ who.bearer = "key" /\ cfg.key
    <2>1. p.kind = "key"
      BY <1>2 DEF resolve_auth_principal
    <2> HIDE DEF p
    <2>2. role_for_org(p, org) = 3
      BY <2>1 DEF role_for_org, Admin
    <2>3. authorize_for_org(p, minimum, org)
      BY <2>2 DEF authorize_for_org, AppRoles
    <2> QED BY <1>2, <2>3 DEF Claims, p
  <1>3. CASE auth_configured(cfg) /\ who.bearer = "session" /\ cfg.session
    <2>1. who.current /\ p.kind = "local" /\ p.role = who.role
      BY <1>3 DEF resolve_auth_principal
    <2> HIDE DEF p
    <2>2. role_for_org(p, org) = who.role
      BY <2>1 DEF role_for_org
    <2>3. authorize_for_org(p, minimum, org) <=> who.role >= minimum
      BY <2>1, <2>2 DEF authorize_for_org
    <2> QED BY <1>3, <2>1, <2>3 DEF Claims, p
  <1>4. CASE auth_configured(cfg) /\ who.bearer = "oidc" /\ cfg.oidc
    <2>1. p.kind = "oidc" /\ p.roles = resolve_resolved_roles(who.groups, cfg.fallback)
      BY <1>4 DEF resolve_auth_principal
    <2> HIDE DEF p
    <2>2. role_for_org(p, org) = for_org(resolve_resolved_roles(who.groups, cfg.fallback), org)
      BY <2>1 DEF role_for_org
    <2>3. authorize_for_org(p, minimum, org) <=>
            for_org(resolve_resolved_roles(who.groups, cfg.fallback), org) >= minimum
      BY <2>1, <2>2 DEF authorize_for_org
    <2>4. for_org(resolve_resolved_roles(who.groups, cfg.fallback), org) >= minimum <=>
            \/ cfg.fallback >= minimum
            \/ \E g \in who.groups : g.role >= minimum /\ g.org \in {org, NoOrg}
      BY <1>c, <1>w, <1>4, RolesAreGroups
    <2> QED BY <1>4, <2>3, <2>4 DEF Claims, p
  <1> QED BY <1>1, <1>2, <1>3, <1>4, <1>w DEF resolve_auth_principal

\* The kinds of callers.
LEMMA CallerKinds ==
    ASSUME NEW cfg \in ServedConfigs, NEW who \in Credentials
    PROVE  LET p == resolve_auth_principal(cfg, who) IN
           /\ p.kind \in {"anonymous", "key", "local", "oidc", "refused"}
           /\ p.kind = "anonymous" <=> ~auth_configured(cfg)
           /\ p.kind = "oidc" => who.bearer = "oidc" /\ p.scoped = who.scoped
           /\ p.kind \notin {"anonymous", "refused"} => who.bearer # "none"
  BY DEF resolve_auth_principal

\* Everyone who gets past authentication is a viewer of the instance.
LEMMA EveryoneViews ==
    ASSUME NEW cfg \in ServedConfigs, NEW who \in Credentials,
           resolve_auth_principal(cfg, who).kind # "refused"
    PROVE  authorize_for_org(resolve_auth_principal(cfg, who), Viewer, NoOrg)
  <1>1. /\ 1 \in AppRoles /\ NoOrg \in Places /\ cfg.fallback \in AppRoles
        /\ who.bearer = "session" => who.role \in AppRoles
    BY AccessAssumption DEF AppRoles, Places, Credentials
  <1>2. auth_configured(cfg) => Claims(cfg, who, 1, NoOrg)
    BY <1>1 DEF resolve_auth_principal, Claims, AppRoles
  <1> QED BY <1>1, <1>2, AuthorizedAsClaimed DEF Viewer

\* The role a request needs, of layer and handler together, and where.
Demand(route) ==
    CASE route \in {"users", "apply", "rollback", "org_apply", "org_rollback"} -> 3
      [] route \in {"check", "requeue", "reload", "org_validate"} -> 2
      [] OTHER -> 1
Place(route, org) == IF route \in Scoped THEN org ELSE NoOrg
Applies == {"apply", "rollback", "org_apply", "org_rollback"}

\* A request is let in if the caller has that role there and the scopes,
\* organizations and signatures are in order.
LEMMA PassesAre200 ==
    ASSUME NEW cfg \in ServedConfigs, NEW who \in Credentials, NEW signed \in BOOLEAN,
           NEW route \in Routes, NEW org \in OrgIds
    PROVE  LET p == resolve_auth_principal(cfg, who) IN
           router(cfg, who, signed, route, org) = 200 <=>
             /\ p.kind # "refused"
             /\ authorize_for_org(p, Layer(route), NoOrg)
             /\ authorize_for_org(p, Demand(route), Place(route, org))
             /\ route \in {"apply", "rollback"} => cfg.orgs = {}
             /\ route \in Scoped \cup {"org_read"} => org \in cfg.orgs
             /\ route \in Applies =>
                  /\ cfg.routes /\ cfg.pushed
                  /\ p.kind = "oidc" /\ cfg.scope => p.scoped
                  /\ cfg.hmac => signed
  <1> DEFINE p == resolve_auth_principal(cfg, who)
  <1>1. p.kind # "refused" => authorize_for_org(p, 1, NoOrg)
    BY EveryoneViews DEF Viewer
  <1> HIDE DEF p
  <1>2. CASE route \in {"apply", "rollback"}
    BY <1>1, <1>2 DEF router, Mounted, Layer, Handler, require_config_apply_auth, Demand, Place,
       Applies, Scoped, Viewer, Operator, Admin, p
  <1>3. CASE route \in {"org_apply", "org_rollback"}
    BY <1>1, <1>3 DEF router, Mounted, Layer, Handler, require_config_apply_auth, Demand, Place,
       Applies, Scoped, Viewer, Operator, Admin, p
  <1>4. CASE route = "org_validate"
    BY <1>1, <1>4 DEF router, Mounted, Layer, Handler, Demand, Place,
       Applies, Scoped, Viewer, Operator, Admin, p
  <1>5. CASE route \in {"read", "users", "check", "requeue", "reload", "org_read"}
    BY <1>1, <1>5 DEF router, Mounted, Layer, Handler, Demand, Place,
       Applies, Scoped, Viewer, Operator, Admin, p
  <1> QED BY <1>2, <1>3, <1>4, <1>5 DEF Routes

\* A group more leaves the caller who it was and takes no claim away.
LEMMA MoreGroups ==
    ASSUME NEW cfg \in ServedConfigs, NEW who \in Credentials, who.bearer = "oidc",
           NEW g \in RoleGrants
    PROVE  LET more == [who EXCEPT !.groups = @ \cup {g}] IN
           /\ more \in Credentials /\ more.bearer = "oidc" /\ more.scoped = who.scoped
           /\ resolve_auth_principal(cfg, more).kind = resolve_auth_principal(cfg, who).kind
           /\ \A minimum, org :
                Claims(cfg, who, minimum, org) => Claims(cfg, more, minimum, org)
  <1> DEFINE more == [who EXCEPT !.groups = @ \cup {g}]
  <1>1. who \in [bearer : {"oidc"}, scoped : BOOLEAN, groups : SUBSET RoleGrants]
    BY DEF Credentials
  <1>2. /\ more \in [bearer : {"oidc"}, scoped : BOOLEAN, groups : SUBSET RoleGrants]
        /\ more.scoped = who.scoped /\ who.groups \subseteq more.groups
    BY <1>1
  <1> HIDE DEF more
  <1>3. more \in Credentials /\ more.bearer = "oidc"
    BY <1>2 DEF Credentials
  <1>4. resolve_auth_principal(cfg, more).kind = resolve_auth_principal(cfg, who).kind
    BY <1>3 DEF resolve_auth_principal
  <1>5. \A minimum, org : Claims(cfg, who, minimum, org) => Claims(cfg, more, minimum, org)
    BY <1>2, <1>3 DEF Claims
  <1> QED BY <1>2, <1>3, <1>4, <1>5 DEF more

\* A request is answered once, by the router.
THEOREM AccessInvariance == AccessSpec => []AccessInv
  <1>1. AccessInit => AccessInv
    BY DEF AccessInit, AccessInv, CallShape
  <1>2. ASSUME AccessInv, [AccessNext]_accessVars PROVE AccessInv'
    <2>1. CASE UNCHANGED call
      BY <1>2, <2>1 DEF AccessInv, CallShape
    <2>2. CASE Answer
      <3>1. PICK said : said = router(call.cfg, call.who, call.signed, call.route, call.org)
        OBVIOUS
      <3>2. /\ call' = [call EXCEPT !.answer = said]
            /\ call = [cfg |-> call.cfg, who |-> call.who, route |-> call.route,
                       signed |-> call.signed, org |-> call.org, answer |-> call.answer]
        BY <1>2, <2>2, <3>1 DEF Answer, AccessInv, CallShape
      <3>3. call' = [cfg |-> call.cfg, who |-> call.who, route |-> call.route,
                     signed |-> call.signed, org |-> call.org, answer |-> said]
        BY <3>2
      <3>4. /\ call'.cfg = call.cfg /\ call'.who = call.who /\ call'.signed = call.signed
            /\ call'.route = call.route /\ call'.org = call.org /\ call'.answer = said
        BY <3>3
      <3>5. CallShape'
        BY <3>3, <3>4 DEF CallShape
      <3> QED BY <1>2, <3>1, <3>4, <3>5 DEF AccessInv
    <2> QED BY <1>2, <2>1, <2>2 DEF AccessNext, accessVars
  <1> QED BY <1>1, <1>2, PTL DEF AccessSpec

\* The router lets in who was granted it, no fewer and no more (mod.rs,
\* auth.rs, role.rs, organizations.rs): a grant on one organization opens
\* nothing elsewhere, an organization's administrator is stopped by no layer, a
\* group more never locks out, and the apply API is open to nobody unknown.
THEOREM RolesAlwaysRespected == AccessSpec => []RolesAreRespected
  <1>1. ASSUME AccessInv PROVE RolesAreRespected
    <2> DEFINE p == resolve_auth_principal(call.cfg, call.who)
               org == Place(call.route, call.org)
    <2>t. /\ call.cfg \in ServedConfigs /\ call.who \in Credentials /\ call.signed \in BOOLEAN
          /\ call.route \in Routes /\ call.org \in OrgIds
      BY <1>1, AccessAssumption DEF AccessInv
    <2>p. NoOrg \in Places /\ call.org \in Places /\ org \in Places
      BY <2>t DEF Places, Place
    <2>c. \A minimum, o : Granted(minimum, o) <=> Claims(call.cfg, call.who, minimum, o)
      BY DEF Granted, Claims
    <2>d. Demand(call.route) \in AppRoles /\ 3 \in AppRoles /\ 2 \in AppRoles
      BY DEF Demand, AppRoles
    <2>h. Handled => /\ p.kind # "refused"
                     /\ authorize_for_org(p, Demand(call.route), org)
                     /\ call.route \in Applies => (call.cfg.hmac => call.signed) /\ call.cfg.routes
      BY <1>1, <2>t, PassesAre200 DEF AccessInv, Handled
    <2>1. OnlyTheGranted
      <3> SUFFICES ASSUME Handled, auth_configured(call.cfg)
                   PROVE  Granted(Demand(call.route), org)
        BY <2>t DEF OnlyTheGranted, Demand, Place, Scoped, Routes, Admin, Operator
      <3> QED BY <2>t, <2>p, <2>c, <2>d, <2>h, AuthorizedAsClaimed
    <2>2. OrgAdminsGetThrough
      <3> SUFFICES ASSUME call.answer = 403, call.route \in Scoped, Granted(3, call.org)
                   PROVE  FALSE
        BY DEF OrgAdminsGetThrough, Admin
      <3>1. router(call.cfg, call.who, call.signed, call.route, call.org) = 403
        BY <1>1 DEF AccessInv
      <3>2. p.kind # "refused"
        BY <3>1 DEF router
      <3>3. authorize_for_org(p, Viewer, NoOrg) /\ Layer(call.route) = Viewer
        BY <2>t, <3>2, EveryoneViews DEF Layer, Scoped
      <3>4. Claims(call.cfg, call.who, 3, call.org) /\ Claims(call.cfg, call.who, 2, call.org)
        <4>1. /\ call.cfg.fallback \in AppRoles
              /\ call.who.bearer = "session" => call.who.role \in AppRoles
              /\ call.who.bearer = "oidc" => \A g \in call.who.groups : g.role \in AppRoles
          BY <2>t, AccessAssumption DEF Credentials, RoleGrants
        <4> QED BY <2>c, <4>1 DEF Claims, AppRoles
      <3>5. authorize_for_org(p, 3, call.org) /\ authorize_for_org(p, 2, call.org)
        BY <2>t, <2>p, <2>d, <3>2, <3>4, AuthorizedAsClaimed
      <3>6. Handler(call.cfg, p, call.signed, call.route, call.org) = 403
        BY <3>1, <3>2, <3>3 DEF router
      <3> HIDE DEF p
      <3>7. require_config_apply_auth(call.cfg, p, call.signed, call.org) # 403
        BY <3>5 DEF require_config_apply_auth, Admin
      <3> QED BY <3>5, <3>6, <3>7 DEF Handler, Scoped, Operator
    <2>3. MoreGroupsNeverLess
      <3> SUFFICES ASSUME Handled, call.who.bearer = "oidc",
                          NEW role \in {Viewer, Operator, Admin}, NEW o \in Places
                   PROVE  router(call.cfg, [call.who EXCEPT !.groups = @ \cup {[role |-> role, org |-> o]}],
                                 call.signed, call.route, call.org) = 200
        BY DEF MoreGroupsNeverLess, Places
      <3>1. PICK g \in RoleGrants : g = [role |-> role, org |-> o]
        <4>1. role \in AppRoles /\ o \in OrgIds \cup {NoOrg}
          BY DEF Places, AppRoles, Viewer, Operator, Admin
        <4> QED BY <4>1 DEF RoleGrants
      <3>2. PICK who : who = call.who
        OBVIOUS
      <3>3. PICK more : more = [who EXCEPT !.groups = @ \cup {g}]
        OBVIOUS
      <3> DEFINE q == resolve_auth_principal(call.cfg, more)
      <3>4. /\ more \in Credentials /\ more.bearer = "oidc" /\ more.scoped = who.scoped
            /\ q.kind = p.kind
            /\ \A minimum, at :
                 Claims(call.cfg, who, minimum, at) => Claims(call.cfg, more, minimum, at)
        BY <2>t, <3>2, <3>3, MoreGroups
      <3>5. ASSUME NEW minimum \in AppRoles, NEW at \in Places, authorize_for_org(p, minimum, at)
            PROVE  authorize_for_org(q, minimum, at)
        BY <2>t, <2>h, <3>2, <3>4, <3>5, AuthorizedAsClaimed
      <3>6. Layer(call.route) \in AppRoles
        BY DEF Layer, AppRoles, Viewer, Operator, Admin
      <3>7. p.kind = "oidc" => q.scoped = p.scoped
        BY <2>t, <3>2, <3>4, CallerKinds
      <3>8. router(call.cfg, who, call.signed, call.route, call.org) = 200
        BY <1>1, <3>2 DEF AccessInv, Handled
      <3>9. router(call.cfg, more, call.signed, call.route, call.org) = 200
        <4> HIDE DEF p, q
        <4>1. /\ p.kind # "refused"
              /\ authorize_for_org(p, Layer(call.route), NoOrg)
              /\ authorize_for_org(p, Demand(call.route), org)
              /\ call.route \in {"apply", "rollback"} => call.cfg.orgs = {}
              /\ call.route \in Scoped \cup {"org_read"} => call.org \in call.cfg.orgs
              /\ call.route \in Applies =>
                   /\ call.cfg.routes /\ call.cfg.pushed
                   /\ p.kind = "oidc" /\ call.cfg.scope => p.scoped
                   /\ call.cfg.hmac => call.signed
          BY <2>t, <3>2, <3>8, PassesAre200 DEF p
        <4>2. /\ q.kind # "refused"
              /\ authorize_for_org(q, Layer(call.route), NoOrg)
              /\ authorize_for_org(q, Demand(call.route), org)
          BY <2>p, <2>d, <3>4, <3>5, <3>6, <4>1
        <4>3. q.kind = "oidc" /\ call.cfg.scope /\ call.route \in Applies => q.scoped
          BY <3>4, <3>7, <4>1
        <4> QED BY <2>t, <3>4, <4>1, <4>2, <4>3, PassesAre200 DEF q
      <3> QED BY <3>1, <3>2, <3>3, <3>9
    <2>4. ApplyIsGuarded
      <3> SUFFICES ASSUME Handled, call.route \in Applies
                   PROVE  (call.cfg.hmac /\ call.signed) \/ call.who.bearer # "none"
        BY DEF ApplyIsGuarded, Applies
      <3>1. Serves(call.cfg) /\ call.cfg.hmac \in BOOLEAN
        BY <1>1, <2>t, AccessAssumption DEF AccessInv
      <3>2. p.kind = "anonymous" => call.cfg.hmac /\ call.signed
        BY <2>t, <2>h, <3>1, CallerKinds DEF Serves, config_apply_auth_configured
      <3> QED BY <2>t, <2>h, <3>2, CallerKinds
    <2> QED BY <2>1, <2>2, <2>3, <2>4 DEF RolesAreRespected
  <1> QED BY <1>1, AccessInvariance, PTL

----------------------------------------------------------------------------
(* The catalogue: types.                                                   *)

\* Releases with a date, or 0, or Absent: a listing, the rows, what is offered.
Listings == [Releases -> Nat \cup {Absent}]
Underway == [at : {"latest", "enrich", "select", "record"}, offer : Listings,
             todo : SUBSET Releases]

CatalogueTypeOK ==
    /\ listing \in Listings /\ shown \in Listings
    /\ latest \in Releases \cup {0} /\ initialized \in BOOLEAN
    /\ tasks \in [Task -> Underway \cup {Resting}]
    /\ queued \subseteq Releases \X Nat
    /\ \A r \in Releases : listing[r] \in {Absent, 0, DateOf[r]}
    /\ \A t \in Task : ~Idle(t) => tasks[t].todo \subseteq In(tasks[t].offer)

----------------------------------------------------------------------------
(* The catalogue: what the pages rest on.                                  *)

\* A task that will catalogue the latest release.
Carries(t) ==
    \/ tasks[t].at \in {"enrich", "select"} /\ latest \in In(tasks[t].offer)
    \/ tasks[t].at = "record" /\ latest \in tasks[t].todo

\* The latest release has its row, or a task on the way to write it.
TagHasRow ==
    causes \cap {"pruned", "cut"} = {} /\ latest # 0 =>
        latest \in In(shown) \/ \E t \in Task : Carries(t)

\* The rows as they will be when a task has written what it offers.
Merged(kept, offer) ==
    [r \in Releases |->
        IF kept[r] \in {Absent, 0} /\ offer[r] # Absent THEN offer[r] ELSE kept[r]]

\* Rows and offers come from the listing, with its dates or still without.
Within(kept) == \A r \in In(kept) : r \in In(listing) /\ kept[r] \in {0, listing[r]}

\* What a task still has to do, and what the latest release is to be.
OnCourse(t) ==
    LET offer == tasks[t].offer
        due == Merged(shown, offer) IN
    /\ Within(offer)
    /\ In(offer) = {} \/ pick_latest(offer) = pick_latest(due)
    /\ latest # 0 => latest = pick_latest(IF tasks[t].at = "latest" THEN shown ELSE due)
    /\ tasks[t].at \in {"select", "record"} =>
         \A r \in In(offer) \cap In(shown) : shown[r] = 0 => offer[r] = 0
    /\ tasks[t].at = "record" => tasks[t].todo = In(offer) \ In(shown)

\* Nothing has happened that misleads: one task at a time, rows that agree with
\* the listing, queued releases that are catalogued, and a latest release that
\* is the newest of the rows, or will be when the task is through.
Steady ==
    /\ \A t, u \in Task : ~Idle(t) /\ ~Idle(u) => t = u
    /\ Within(shown)
    /\ \A q \in queued : q[1] \in In(shown) /\ q[2] \in {0, shown[q[1]]}
    /\ \A t \in Task : ~Idle(t) => OnCourse(t)
    /\ AtRest /\ latest # 0 => latest = pick_latest(shown)

CatalogueInv == CatalogueTypeOK /\ TagHasRow /\ (causes = {} => Steady)

----------------------------------------------------------------------------
(* The catalogue: the order of releases.                                   *)

\* compare_releases orders the releases of a listing strictly and totally.
LEMMA OrdersReleases ==
    ASSUME NEW S \in Listings
    PROVE  /\ \A a, b \in In(S) : compare_releases(a, b, S) => ~compare_releases(b, a, S)
           /\ \A a, b \in In(S) : a # b => compare_releases(a, b, S) \/ compare_releases(b, a, S)
           /\ \A a, b, c \in In(S) :
                compare_releases(a, b, S) /\ compare_releases(b, c, S) => compare_releases(a, c, S)
  <1>1. \A a \in In(S) : a \in Nat /\ S[a] \in Nat
    BY CatalogueAssumption DEF In, Listings, Absent
  <1>2. \A a, b \in In(S) : compare_releases(a, b, S) => ~compare_releases(b, a, S)
    BY <1>1 DEF compare_releases
  <1>3. \A a, b \in In(S) : a # b => compare_releases(a, b, S) \/ compare_releases(b, a, S)
    BY <1>1 DEF compare_releases
  <1>4. \A a, b, c \in In(S) :
          compare_releases(a, b, S) /\ compare_releases(b, c, S) => compare_releases(a, c, S)
    BY <1>1 DEF compare_releases
  <1> QED BY <1>2, <1>3, <1>4

\* The release above all others is the one picked.
LEMMA PickIs ==
    ASSUME NEW S \in Listings, NEW r \in In(S),
           \A q \in In(S) \ {r} : compare_releases(q, r, S)
    PROVE  pick_latest(S) = r
  <1>1. \A p \in In(S) : (\A q \in In(S) \ {p} : compare_releases(q, p, S)) => p = r
    BY OrdersReleases
  <1> QED BY <1>1 DEF pick_latest

\* There is one: of finitely many releases one has the fewest above it, none.
LEMMA PickIsIn ==
    ASSUME NEW S \in Listings, In(S) # {}
    PROVE  pick_latest(S) \in In(S)
  <1> DEFINE Above(r) == {q \in In(S) : compare_releases(r, q, S)}
             Counts == {Cardinality(Above(r)) : r \in In(S)}
             Lower == OpToRel(<, Nat)
  <1>1. \A r \in In(S) : IsFiniteSet(Above(r)) /\ Cardinality(Above(r)) \in Nat
    <2> TAKE r \in In(S)
    <2>1. Above(r) \in SUBSET Releases
      BY DEF In
    <2> QED BY <2>1, CatalogueAssumption, FS_Subset, FS_CardinalityType
  <1>2. \E n \in Counts : \A m \in Counts : <<m, n>> \notin Lower
    <2>1. Counts \subseteq Nat /\ Counts # {}
      BY <1>1
    <2> HIDE DEF Counts
    <2> QED BY <2>1, NatLessThanWellFounded, WFMin
  <1>3. PICK r \in In(S) : \A q \in In(S) : ~(Cardinality(Above(q)) < Cardinality(Above(r)))
    BY <1>1, <1>2 DEF OpToRel
  <1>4. \A q \in In(S) \ {r} : compare_releases(q, r, S)
    <2> SUFFICES ASSUME NEW q \in In(S) \ {r}, ~compare_releases(q, r, S)
                 PROVE  FALSE
      OBVIOUS
    <2>1. compare_releases(r, q, S)
      BY OrdersReleases
    <2>2. Above(q) \subseteq Above(r) /\ q \in Above(r) /\ q \notin Above(q)
      BY <2>1, OrdersReleases
    <2>3. /\ Cardinality(Above(q)) <= Cardinality(Above(r))
          /\ Cardinality(Above(q)) # Cardinality(Above(r))
      <3> HIDE DEF Above
      <3>1. IsFiniteSet(Above(r)) /\ Above(q) \in SUBSET Above(r) /\ Above(q) # Above(r)
        BY <1>1, <2>2
      <3> QED BY <3>1, FS_Subset
    <2> HIDE DEF Above
    <2> QED BY <1>1, <1>3, <2>3
  <1> QED BY <1>4, PickIs

\* A release that nothing rivals once a date has come in is picked.
LEMMA NewestIsPicked ==
    ASSUME NEW kept \in Listings, NEW r \in Releases, NEW d \in Nat,
           kept[r] \notin {Absent, 0} => d <= kept[r],
           \A q \in In(kept) \ {r} : ~compare_releases(r, q, [kept EXCEPT ![r] = d])
    PROVE  pick_latest(Merged(kept, [None EXCEPT ![r] = d])) = r
  <1> DEFINE due == Merged(kept, [None EXCEPT ![r] = d])
             dated == [kept EXCEPT ![r] = d]
  <1>1. /\ due \in Listings /\ dated \in Listings
        /\ In(due) = In(kept) \cup {r} /\ In(dated) = In(kept) \cup {r}
        /\ \A q \in Releases \ {r} : due[q] = kept[q] /\ dated[q] = kept[q]
        /\ dated[r] = d /\ due[r] = IF kept[r] \in {Absent, 0} THEN d ELSE kept[r]
    BY DEF Merged, None, Listings, In, Absent
  <1>2. \A q \in In(kept) \ {r} : compare_releases(q, r, dated)
    <2> HIDE DEF dated, due
    <2> QED BY <1>1, OrdersReleases DEF dated
  <1>3. \A q \in In(kept) \ {r} : compare_releases(q, r, due)
    <2>1. due[r] \in Nat /\ d <= due[r]
      <3> HIDE DEF dated, due
      <3>1. kept[r] \in Nat \cup {Absent}
        BY DEF Listings
      <3> QED BY <1>1, <3>1 DEF Absent
    <2>2. \A q \in In(kept) \ {r} : q \in Releases /\ kept[q] \in Nat /\ q \in Nat /\ r \in Nat
      BY CatalogueAssumption DEF In, Listings, Absent
    <2> HIDE DEF dated, due
    <2> QED BY <1>1, <1>2, <2>1, <2>2 DEF compare_releases
  <1> HIDE DEF due
  <1> QED BY <1>1, <1>3, PickIs DEF due

----------------------------------------------------------------------------
(* The catalogue: its writers.                                             *)

\* Dates are filled in, rows are added, none goes.
LEMMA RowsGrow ==
    ASSUME shown \in Listings, NEW offer \in Listings, NEW S \in SUBSET In(offer)
    PROVE  /\ enrich_seen_metadata(offer) \in Listings /\ write_seen_row(S, offer) \in Listings
           /\ In(enrich_seen_metadata(offer)) = In(shown)
           /\ In(write_seen_row(S, offer)) = In(shown) \cup S
  <1>1. Listings = [Releases -> Nat \cup {Absent}] /\ 0 \in Nat /\ 0 # Absent
    BY DEF Listings, Absent
  <1>2. enrich_seen_metadata(offer) \in Listings /\ write_seen_row(S, offer) \in Listings
    BY <1>1 DEF enrich_seen_metadata, write_seen_row
  <1>3. \A r \in Releases : enrich_seen_metadata(offer)[r] # Absent <=> shown[r] # Absent
    BY <1>1 DEF enrich_seen_metadata
  <1>4. \A r \in Releases : write_seen_row(S, offer)[r] # Absent <=>
          shown[r] # Absent \/ r \in S
    BY <1>1 DEF write_seen_row, In
  <1> QED BY <1>2, <1>3, <1>4 DEF In

\* What an error or the client's order cannot break is a matter of types.
LEMMA TypesSuffice ==
    ASSUME CatalogueTypeOK', causes' \cap {"pruned", "cut"} # {}
    PROVE  CatalogueInv'
  BY DEF CatalogueInv, TagHasRow

\* One task moves on.
LEMMA TaskMoves ==
    ASSUME CatalogueTypeOK, NEW t \in Task, NEW x \in Underway \cup {Resting},
           tasks' = [tasks EXCEPT ![t] = x],
           x.at # "idle" => x.todo \subseteq In(x.offer),
           listing' = listing, shown' \in Listings, latest' \in Releases \cup {0},
           initialized' \in BOOLEAN, queued' \subseteq Releases \X Nat
    PROVE  CatalogueTypeOK' /\ tasks'[t] = x /\ \A u \in Task \ {t} : tasks'[u] = tasks[u]
  <1>1. tasks'[t] = x /\ \A u \in Task \ {t} : tasks'[u] = tasks[u]
    BY DEF CatalogueTypeOK
  <1>2. tasks' \in [Task -> Underway \cup {Resting}]
    BY DEF CatalogueTypeOK
  <1>3. \A u \in Task : tasks'[u].at # "idle" => tasks'[u].todo \subseteq In(tasks'[u].offer)
    BY <1>1 DEF CatalogueTypeOK, Idle
  <1> QED BY <1>1, <1>2, <1>3 DEF CatalogueTypeOK, Idle, In

\* The tag has its row as long as rows only come, if the task that moves, or the
\* rows, take over what it carried.
LEMMA TagMoves ==
    ASSUME TagHasRow, NEW t \in Task, \A u \in Task \ {t} : tasks'[u] = tasks[u],
           causes \subseteq causes', In(shown) \subseteq In(shown)', latest' = latest,
           Carries(t) /\ causes' \cap {"pruned", "cut"} = {} =>
             Carries(t)' \/ latest \in In(shown)'
    PROVE  TagHasRow'
  <1>1. \A u \in Task \ {t} : Carries(u) => Carries(u)'
    BY DEF Carries, In
  <1> QED BY <1>1 DEF TagHasRow

\* In a steady catalogue the other task rests while one is busy.
LEMMA SteadyMoves ==
    ASSUME Steady, NEW t \in Task, \A u \in Task \ {t} : tasks'[u] = tasks[u],
           ~Idle(t) \/ AtRest,
           Within(shown)', \A q \in queued' : q[1] \in In(shown)' /\ q[2] \in {0, shown'[q[1]]},
           ~Idle(t)' => OnCourse(t)',
           Idle(t)' /\ latest' # 0 => latest' = pick_latest(shown)'
    PROVE  Steady'
  <1>1. \A u \in Task \ {t} : Idle(u) /\ Idle(u)'
    BY DEF Steady, Idle, AtRest
  <1>2. \A u, v \in Task : ~Idle(u)' /\ ~Idle(v)' => u = v
    BY <1>1
  <1>3. \A u \in Task : ~Idle(u)' => OnCourse(u)'
    BY <1>1
  <1>4. AtRest' /\ latest' # 0 => latest' = pick_latest(shown)'
    BY DEF AtRest
  <1> QED BY <1>2, <1>3, <1>4 DEF Steady

\* The initial states.
LEMMA InitCatalogue == CatalogueInit => CatalogueInv
  <1> SUFFICES ASSUME CatalogueInit PROVE CatalogueInv
    OBVIOUS
  <1>1. None \in Listings /\ [None EXCEPT ![1] = 0] \in Listings
    BY CatalogueAssumption DEF None, Listings
  <1>2. \A r \in Releases : None[r] = Absent /\ [None EXCEPT ![1] = 0][r] \in {Absent, 0}
    BY DEF None
  <1>3. \A t \in Task : tasks[t] = Resting /\ Idle(t)
    BY DEF CatalogueInit, Idle, Resting
  <1>4. CatalogueTypeOK
    BY <1>1, <1>2, <1>3 DEF CatalogueInit, CatalogueTypeOK
  <1>5. \A r \in In(shown) : shown[r] = 0
    BY <1>1, <1>2 DEF CatalogueInit, In
  <1>6. causes = {} => Within(shown)
    BY <1>5 DEF CatalogueInit, Within
  <1> QED BY <1>3, <1>4, <1>6 DEF CatalogueInit, CatalogueInv, TagHasRow, Steady

\* Upstream changes its listing: what has come from it is still within it.
LEMMA UpstreamKeeps ==
    ASSUME CatalogueInv, Upstream
    PROVE  CatalogueInv'
  <1>f. /\ shown' = shown /\ latest' = latest /\ tasks' = tasks /\ queued' = queued
        /\ initialized' = initialized /\ causes \subseteq causes'
    BY DEF Upstream
  <1>1. CatalogueTypeOK'
    <2>1. PICK r \in Releases : \E d \in {Absent, 0, DateOf[r]} : listing' = [listing EXCEPT ![r] = d]
      BY DEF Upstream
    <2>2. DateOf[r] \in Nat
      BY CatalogueAssumption
    <2>3. listing' \in Listings /\ \A q \in Releases : listing'[q] \in {Absent, 0, DateOf[q]}
      BY <2>1, <2>2 DEF CatalogueInv, CatalogueTypeOK, Listings
    <2> QED BY <1>f, <2>3 DEF CatalogueInv, CatalogueTypeOK, Idle, In
  <1>2. TagHasRow'
    BY <1>f DEF CatalogueInv, TagHasRow, Carries, In
  <1>3. ASSUME causes' = {} PROVE Steady'
    <2>1. PICK r \in Releases, d \in Nat :
            /\ listing' = [listing EXCEPT ![r] = d] /\ listing[r] \in {Absent, 0}
      <3>1. \A q \in Releases : DateOf[q] \in Nat
        BY CatalogueAssumption
      <3> QED BY <1>3, <3>1 DEF Upstream
    <2>2. \A kept \in Listings : Within(kept) => Within(kept)'
      <3>1. \A q \in In(listing) :
              q \in In(listing)' /\ \A n : n \in {0, listing[q]} => n \in {0, listing'[q]}
        BY <2>1 DEF CatalogueInv, CatalogueTypeOK, Listings, In, Absent
      <3> QED BY <3>1 DEF Within, In
    <2>3. Steady
      BY <1>3, <1>f DEF CatalogueInv
    <2>4. \A t \in Task : ~Idle(t) => OnCourse(t)'
      <3> SUFFICES ASSUME NEW t \in Task, ~Idle(t) PROVE OnCourse(t)'
        OBVIOUS
      <3>1. tasks[t].offer \in Listings
        BY DEF CatalogueInv, CatalogueTypeOK, Idle, Resting, Underway
      <3>2. OnCourse(t)
        BY <2>3 DEF Steady
      <3>3. PICK kept \in Listings : kept = tasks[t].offer
        BY <3>1
      <3>4. Within(kept)'
        BY <2>2, <3>2, <3>3 DEF OnCourse
      <3> QED BY <1>f, <3>2, <3>3, <3>4 DEF OnCourse, In
    <2>5. Within(shown)'
      <3>1. PICK kept \in Listings : kept = shown
        BY DEF CatalogueInv, CatalogueTypeOK
      <3>2. Within(kept)'
        BY <2>2, <2>3, <3>1 DEF Steady
      <3> QED BY <1>f, <3>1, <3>2
    <2> QED BY <1>f, <2>3, <2>4, <2>5 DEF Steady, Idle, AtRest, In
  <1> QED BY <1>1, <1>2, <1>3 DEF CatalogueInv

\* An unchanged listing: dates and a missing tag are filled in.
LEMMA RefreshKeeps ==
    ASSUME CatalogueInv, refresh_seen_metadata
    PROVE  CatalogueInv'
  <1>t. CatalogueTypeOK
    BY DEF CatalogueInv
  <1>f. /\ listing' = listing /\ tasks' = tasks /\ queued' = queued
        /\ initialized' = initialized /\ causes \subseteq causes'
    BY DEF refresh_seen_metadata
  <1>1. shown' \in Listings /\ In(shown)' = In(shown)
    <2>1. \/ shown' = enrich_seen_metadata(listing) \/ shown' = shown
      BY DEF refresh_seen_metadata
    <2>2. /\ enrich_seen_metadata(listing) \in Listings
          /\ In(enrich_seen_metadata(listing)) = In(shown)
      BY <1>t, RowsGrow DEF CatalogueTypeOK
    <2>3. PICK kept : kept = enrich_seen_metadata(listing)
      OBVIOUS
    <2> QED BY <1>t, <2>1, <2>2, <2>3 DEF CatalogueTypeOK, In
  <1>2. latest' \in In(shown) \cup {0} \/ latest' = latest
    <2>1. PICK kept : kept = [r \in Releases |-> IF shown[r] = Absent THEN Absent ELSE 0]
      OBVIOUS
    <2>2. kept \in Listings /\ In(kept) = In(shown)
      BY <2>1 DEF Listings, In, Absent
    <2>3. best_seen_identity \in In(shown) \cup {0}
      BY <2>1, <2>2, PickIsIn DEF best_seen_identity, pick_latest
    <2> QED BY <2>3 DEF refresh_seen_metadata
  <1>3. CatalogueTypeOK'
    <2>1. latest' \in Releases \cup {0}
      BY <1>t, <1>2 DEF CatalogueTypeOK, In
    <2> QED BY <1>t, <1>f, <1>1, <2>1 DEF CatalogueTypeOK, Idle, In
  <1>4. TagHasRow'
    BY <1>f, <1>1, <1>2 DEF CatalogueInv, TagHasRow, Carries, In
  <1>5. ASSUME causes' = {} PROVE Steady'
    <2>1. causes = {} /\ shown' = shown /\ latest' = latest
      BY <1>5, <1>f DEF refresh_seen_metadata
    <2> QED BY <1>f, <2>1 DEF CatalogueInv, Steady, Within, OnCourse, Idle, AtRest, In
  <1> QED BY <1>3, <1>4, <1>5 DEF CatalogueInv

\* A listing has come: it is what the rows will be.
LEMMA PollKeeps ==
    ASSUME CatalogueInv, poll_source
    PROVE  CatalogueInv'
  <1>t. CatalogueTypeOK
    BY DEF CatalogueInv
  <1>1. PICK x : x = [at |-> "latest", offer |-> listing, todo |-> {}]
    OBVIOUS
  <1>2. x \in Underway /\ x.at = "latest" /\ x.offer = listing /\ x.todo = {}
    BY <1>t, <1>1 DEF Underway, CatalogueTypeOK
  <1>3. /\ "poll" \in Task /\ Idle("poll") /\ tasks' = [tasks EXCEPT !["poll"] = x]
        /\ listing' = listing /\ shown' = shown /\ latest' = latest /\ queued' = queued
        /\ initialized' = initialized /\ causes' = causes \cup Overlap
    BY <1>1 DEF poll_source, Offers, Task
  <1>4. /\ CatalogueTypeOK' /\ tasks'["poll"] = x
        /\ \A u \in Task \ {"poll"} : tasks'[u] = tasks[u]
    BY <1>t, <1>2, <1>3, TaskMoves DEF CatalogueTypeOK
  <1>5. TagHasRow'
    BY <1>3, <1>4, TagMoves DEF CatalogueInv, Carries, Idle, In
  <1>6. ASSUME causes' = {} PROVE Steady'
    <2>1. causes = {} /\ AtRest /\ Steady
      BY <1>3, <1>6 DEF Overlap, CatalogueInv
    <2>2. PICK now \in Listings : now = listing
      BY <1>t DEF CatalogueTypeOK
    <2>3. Merged(shown, now) = now
      BY <1>t, <2>1, <2>2 DEF Steady, Within, Merged, CatalogueTypeOK, Listings, In, Absent
    <2>4. Within(now)'
      BY <1>3, <2>2 DEF Within, In
    <2>5. OnCourse("poll")'
      BY <1>2, <1>3, <1>4, <2>1, <2>2, <2>3, <2>4 DEF OnCourse, Steady, Merged
    <2> QED BY <1>2, <1>3, <1>4, <2>1, <2>5, SteadyMoves DEF Steady, Within, Idle, In
  <1> QED BY <1>4, <1>5, <1>6 DEF CatalogueInv

\* A webhook has come: unless it is counted as a cause, its release is the newest.
LEMMA HookKeeps ==
    ASSUME CatalogueInv, ingest_webhook
    PROVE  CatalogueInv'
  <1>t. CatalogueTypeOK
    BY DEF CatalogueInv
  <1>1. PICK r \in In(listing) : \E d \in {0, DateOf[r]} :
          /\ Offers("hook", [None EXCEPT ![r] = d])
          /\ causes' = causes \cup Overlap
               \cup (IF \E q \in In(shown) \ {r} : compare_releases(r, q, [shown EXCEPT ![r] = d])
                     THEN {"older_hook"} ELSE {})
               \cup (IF d > listing[r] THEN {"hook_date"} ELSE {})
    BY DEF ingest_webhook
  <1>2. PICK d \in {0, DateOf[r]} :
          /\ Offers("hook", [None EXCEPT ![r] = d])
          /\ causes' = causes \cup Overlap
               \cup (IF \E q \in In(shown) \ {r} : compare_releases(r, q, [shown EXCEPT ![r] = d])
                     THEN {"older_hook"} ELSE {})
               \cup (IF d > listing[r] THEN {"hook_date"} ELSE {})
    BY <1>1
  <1>3. r \in Releases /\ d \in Nat /\ listing[r] \in {0, DateOf[r]}
    BY <1>t, CatalogueAssumption DEF In, CatalogueTypeOK
  <1>4. PICK offer \in Listings : offer = [None EXCEPT ![r] = d]
    BY <1>3 DEF None, Listings
  <1>5. In(offer) = {r} /\ offer[r] = d
    BY <1>3, <1>4 DEF In, None, Absent
  <1>6. PICK x : x = [at |-> "latest", offer |-> offer, todo |-> {}]
    OBVIOUS
  <1>7. x \in Underway /\ x.at = "latest" /\ x.offer = offer /\ x.todo = {}
    BY <1>6 DEF Underway
  <1>8. /\ "hook" \in Task /\ Idle("hook") /\ tasks' = [tasks EXCEPT !["hook"] = x]
        /\ listing' = listing /\ shown' = shown /\ latest' = latest /\ queued' = queued
        /\ initialized' = initialized /\ causes \subseteq causes'
    BY <1>2, <1>4, <1>6 DEF ingest_webhook, Offers, Task
  <1>9. /\ CatalogueTypeOK' /\ tasks'["hook"] = x
        /\ \A u \in Task \ {"hook"} : tasks'[u] = tasks[u]
    BY <1>t, <1>7, <1>8, TaskMoves DEF CatalogueTypeOK
  <1>10. TagHasRow'
    BY <1>8, <1>9, TagMoves DEF CatalogueInv, Carries, Idle, In
  <1>11. ASSUME causes' = {} PROVE Steady'
    <2>1. causes = {} /\ AtRest /\ Steady
      BY <1>2, <1>11 DEF Overlap, CatalogueInv
    <2>2. d <= listing[r]
      BY <1>2, <1>3, <1>11, CatalogueAssumption
    <2>3. PICK kept \in Listings : kept = shown
      BY <1>t DEF CatalogueTypeOK
    <2>4. pick_latest(Merged(kept, offer)) = r
      <3>1. \A q \in In(kept) \ {r} : ~compare_releases(r, q, [kept EXCEPT ![r] = d])
        BY <1>2, <1>11, <2>3
      <3>2. kept[r] \notin {Absent, 0} => d <= kept[r]
        BY <1>3, <2>1, <2>2, <2>3 DEF Steady, Within, In
      <3> QED BY <1>3, <1>4, <3>1, <3>2, NewestIsPicked
    <2>5. pick_latest(offer) = r
      BY <1>5, PickIs
    <2>6. Within(offer)'
      <3>1. listing[r] # Absent /\ d \in {0, listing[r]}
        BY <1>3, <2>2, CatalogueAssumption DEF Absent
      <3> QED BY <1>3, <1>5, <1>8, <3>1 DEF Within, In
    <2>7. OnCourse("hook")'
      BY <1>7, <1>8, <1>9, <2>1, <2>3, <2>4, <2>5, <2>6 DEF OnCourse, Steady, Merged
    <2> QED BY <1>7, <1>8, <1>9, <2>1, <2>7, SteadyMoves DEF Steady, Within, Idle, In
  <1> QED BY <1>9, <1>10, <1>11 DEF CatalogueInv

\* What a busy task holds.
LEMMA AtWork ==
    ASSUME CatalogueTypeOK, NEW t \in Task, ~Idle(t)
    PROVE  /\ tasks[t] \in Underway /\ tasks[t].offer \in Listings
           /\ tasks[t].todo \subseteq In(tasks[t].offer)
  BY DEF CatalogueTypeOK, Idle, Resting, Underway

\* The latest release is named before it has a row.
LEMMA SetLatestKeeps ==
    ASSUME CatalogueInv, NEW t \in Task, SetLatest(t)
    PROVE  CatalogueInv'
  <1>t. CatalogueTypeOK /\ ~Idle(t) /\ tasks[t].at = "latest"
    BY DEF CatalogueInv, SetLatest, Idle
  <1>1. PICK x : x = [tasks[t] EXCEPT !.at = "enrich"]
    OBVIOUS
  <1>2. PICK offer \in Listings : offer = tasks[t].offer
    BY <1>t, AtWork
  <1>3. /\ x \in Underway /\ x.at = "enrich" /\ x.offer = offer /\ x.todo \subseteq In(x.offer)
    BY <1>t, <1>1, <1>2, AtWork DEF Underway
  <1>4. /\ tasks' = [tasks EXCEPT ![t] = x]
        /\ listing' = listing /\ shown' = shown /\ queued' = queued
        /\ initialized' = initialized /\ causes' = causes
        /\ latest' = IF In(offer) = {} THEN latest ELSE pick_latest(offer)
    BY <1>1, <1>2 DEF SetLatest, set_latest_release_tag
  <1>5. In(offer) # {} => latest' \in In(offer)
    BY <1>4, PickIsIn
  <1>6. /\ CatalogueTypeOK' /\ tasks'[t] = x
        /\ \A u \in Task \ {t} : tasks'[u] = tasks[u]
    <2>1. latest' \in Releases \cup {0}
      BY <1>t, <1>4, <1>5 DEF CatalogueTypeOK, In
    <2> QED BY <1>t, <1>3, <1>4, <2>1, TaskMoves DEF CatalogueTypeOK
  <1>7. TagHasRow'
    <2>1. CASE In(offer) = {}
      BY <1>t, <1>4, <1>6, <2>1, TagMoves DEF CatalogueInv, Carries, In
    <2>2. CASE In(offer) # {}
      BY <1>3, <1>5, <1>6, <2>2 DEF TagHasRow, Carries
    <2> QED BY <2>1, <2>2
  <1>8. ASSUME causes' = {} PROVE Steady'
    <2>1. Steady /\ OnCourse(t)
      BY <1>4, <1>8, <1>t DEF CatalogueInv, Steady
    <2>2. In(offer) = {} => Merged(shown, offer) = shown
      BY <1>t DEF Merged, In, CatalogueTypeOK, Listings
    <2>3. OnCourse(t)'
      BY <1>t, <1>2, <1>3, <1>4, <1>6, <2>1, <2>2 DEF OnCourse, Within, Merged, In
    <2> QED BY <1>t, <1>3, <1>4, <1>6, <2>1, <2>3, SteadyMoves DEF Steady, Within, Idle, In
  <1> QED BY <1>6, <1>7, <1>8 DEF CatalogueInv

\* Dates are filled in from what is offered.
LEMMA EnrichKeeps ==
    ASSUME CatalogueInv, NEW t \in Task, Enrich(t)
    PROVE  CatalogueInv'
  <1>t. CatalogueTypeOK /\ ~Idle(t) /\ tasks[t].at = "enrich"
    BY DEF CatalogueInv, Enrich, Idle
  <1>1. PICK x : x = [tasks[t] EXCEPT !.at = "select"]
    OBVIOUS
  <1>2. PICK offer \in Listings, kept \in Listings, after \in Listings :
          /\ offer = tasks[t].offer /\ kept = shown
          /\ after = enrich_seen_metadata(offer)
    <2>1. \A offer \in Listings : enrich_seen_metadata(offer) \in Listings
      BY <1>t, RowsGrow DEF CatalogueTypeOK
    <2> QED BY <1>t, <2>1, AtWork DEF CatalogueTypeOK
  <1>3. /\ x \in Underway /\ x.at = "select" /\ x.offer = offer /\ x.todo \subseteq In(x.offer)
    BY <1>t, <1>1, <1>2, AtWork DEF Underway
  <1>4. /\ tasks' = [tasks EXCEPT ![t] = x] /\ shown' = after
        /\ listing' = listing /\ queued' = queued /\ latest' = latest
        /\ initialized' = initialized /\ causes' = causes
    BY <1>1, <1>2 DEF Enrich
  <1>5. after \in Listings /\ In(after) = In(kept)
    BY <1>t, <1>2, RowsGrow DEF CatalogueTypeOK
  <1>6. /\ CatalogueTypeOK' /\ tasks'[t] = x
        /\ \A u \in Task \ {t} : tasks'[u] = tasks[u]
    BY <1>t, <1>3, <1>4, <1>5, TaskMoves DEF CatalogueTypeOK
  <1>7. TagHasRow'
    <2>1. In(shown) = In(shown)'
      BY <1>2, <1>4, <1>5 DEF In
    <2>2. Carries(t) => Carries(t)'
      BY <1>t, <1>2, <1>3, <1>4, <1>6 DEF Carries, In
    <2> QED BY <1>4, <1>6, <2>1, <2>2, TagMoves DEF CatalogueInv
  <1>8. ASSUME causes' = {} PROVE Steady'
    <2>1. Steady /\ OnCourse(t)
      BY <1>4, <1>8, <1>t DEF CatalogueInv, Steady
    <2>a. \A r \in Releases : after[r] = IF kept[r] = 0 /\ offer[r] # Absent THEN offer[r] ELSE kept[r]
      BY <1>2 DEF enrich_seen_metadata
    <2>2. Merged(after, offer) = Merged(kept, offer)
      BY <2>a DEF Merged, Absent
    <2>3. \A r \in In(offer) \cap In(after) : after[r] = 0 => offer[r] = 0
      BY <2>a DEF In, Absent
    <2>4. Within(after)
      BY <1>2, <2>1, <2>a, <1>5 DEF Steady, OnCourse, Within, In
    <2>5. \A q \in queued : q[1] \in In(after) /\ q[2] \in {0, after[q[1]]}
      <3>1. \A q \in queued : q[1] \in In(kept) /\ q[2] \in {0, kept[q[1]]}
        BY <1>2, <2>1 DEF Steady
      <3> QED BY <1>5, <2>a, <3>1 DEF In
    <2>6. OnCourse(t)'
      BY <1>t, <1>2, <1>3, <1>4, <1>6, <2>1, <2>2, <2>3 DEF OnCourse, Within, Merged, In
    <2> QED BY <1>t, <1>3, <1>4, <1>6, <2>1, <2>4, <2>5, <2>6, SteadyMoves DEF Within, Idle, In
  <1> QED BY <1>6, <1>7, <1>8 DEF CatalogueInv

\* A first listing is the baseline; after that, what is new is to be recorded.
LEMMA SelectKeeps ==
    ASSUME CatalogueInv, NEW t \in Task, Select(t)
    PROVE  CatalogueInv'
  <1>t. CatalogueTypeOK /\ ~Idle(t) /\ tasks[t].at = "select"
    BY DEF CatalogueInv, Select, Idle
  <1>1. PICK offer \in Listings, kept \in Listings : offer = tasks[t].offer /\ kept = shown
    BY <1>t, AtWork DEF CatalogueTypeOK
  <1>f. /\ listing' = listing /\ queued' = queued /\ causes' = causes
    BY DEF Select
  <1>r. Resting \in Underway \cup {Resting} /\ Resting.at = "idle"
    BY DEF Resting
  <1>2. CASE initialized
    <2>1. PICK todo : todo = In(offer) \ In(kept)
      OBVIOUS
    <2>2. PICK x : x = IF todo = {} THEN Resting ELSE [tasks[t] EXCEPT !.at = "record", !.todo = todo]
      OBVIOUS
    <2>3. todo # {} => /\ x \in Underway /\ x.at = "record" /\ x.offer = offer /\ x.todo = todo
      BY <1>t, <1>1, <2>1, <2>2, AtWork DEF Underway, In
    <2>4. todo = {} => x = Resting
      BY <2>2
    <2>5. /\ tasks' = [tasks EXCEPT ![t] = x] /\ shown' = kept /\ latest' = latest
          /\ initialized' = initialized
      <3>1. \E u \in {todo} : tasks' = [tasks EXCEPT ![t] =
              IF u = {} THEN Resting ELSE [@ EXCEPT !.at = "record", !.todo = u]]
        BY <1>1, <1>2, <2>1 DEF Select, In
      <3> QED BY <1>1, <1>2, <2>2, <3>1 DEF Select
    <2>6. /\ CatalogueTypeOK' /\ tasks'[t] = x
          /\ \A u \in Task \ {t} : tasks'[u] = tasks[u]
      <3>1. x \in Underway \cup {Resting} /\ (x.at # "idle" => x.todo \subseteq In(x.offer))
        BY <1>r, <2>1, <2>3, <2>4
      <3> QED BY <1>t, <1>1, <1>f, <2>5, <3>1, TaskMoves DEF CatalogueTypeOK
    <2>7. TagHasRow'
      <3>1. Carries(t) => Carries(t)' \/ latest \in In(shown)'
        BY <1>t, <1>1, <2>1, <2>3, <2>5, <2>6 DEF Carries, In
      <3> QED BY <1>1, <1>f, <2>5, <2>6, <3>1, TagMoves DEF CatalogueInv, In
    <2>8. ASSUME causes' = {} PROVE Steady'
      <3>1. Steady /\ OnCourse(t)
        BY <1>f, <1>t, <2>8 DEF CatalogueInv, Steady
      <3>2. todo = {} => Merged(kept, offer) = kept
        <4>1. \A r \in In(offer) \cap In(kept) : kept[r] = 0 => offer[r] = 0
          BY <1>t, <1>1, <3>1 DEF OnCourse
        <4>2. todo = {} => \A r \in Releases : offer[r] # Absent => kept[r] # Absent /\ (kept[r] = 0 => offer[r] = 0)
          BY <2>1, <4>1 DEF In
        <4> QED BY <4>2 DEF Merged, Listings
      <3>3. latest # 0 => latest = pick_latest(Merged(kept, offer))
        BY <1>t, <1>1, <3>1 DEF OnCourse
      <3>4. CASE todo = {}
        <4>1. latest # 0 => latest = pick_latest(kept)
          BY <3>2, <3>3, <3>4
        <4>2. Idle(t)'
          BY <1>r, <2>4, <2>6, <3>4 DEF Idle
        <4> QED BY <1>t, <1>1, <1>f, <2>5, <2>6, <3>1, <4>1, <4>2, SteadyMoves DEF Steady, Within, In
      <3>5. CASE todo # {}
        <4>1. OnCourse(t)'
          BY <1>t, <1>1, <1>f, <2>1, <2>3, <2>5, <2>6, <3>1, <3>3, <3>5 DEF OnCourse, Within, Merged, In
        <4>2. ~Idle(t)'
          BY <2>3, <2>6, <3>5 DEF Idle
        <4> QED BY <1>t, <1>1, <1>f, <2>5, <2>6, <3>1, <4>1, <4>2, SteadyMoves DEF Steady, Within, In
      <3> QED BY <3>4, <3>5
    <2> QED BY <2>6, <2>7, <2>8 DEF CatalogueInv
  <1>3. CASE ~initialized
    <2>1. PICK after \in Listings : after = write_seen_row(In(offer), offer) /\ In(kept) \cup In(offer) = In(after)
      BY <1>t, <1>1, RowsGrow DEF CatalogueTypeOK
    <2>2. /\ tasks' = [tasks EXCEPT ![t] = Resting] /\ shown' = after /\ initialized' = TRUE
          /\ latest' = IF In(offer) = {} THEN latest ELSE pick_latest(offer)
      BY <1>1, <1>3, <2>1 DEF Select
    <2>3. In(offer) # {} => latest' \in In(offer)
      BY <2>2, PickIsIn
    <2>4. /\ CatalogueTypeOK' /\ tasks'[t] = Resting
          /\ \A u \in Task \ {t} : tasks'[u] = tasks[u]
      <3>1. latest' \in Releases \cup {0}
        BY <1>t, <2>2, <2>3 DEF CatalogueTypeOK, In
      <3> QED BY <1>t, <1>r, <1>f, <2>2, <3>1, TaskMoves DEF CatalogueTypeOK
    <2>5. TagHasRow'
      <3>1. CASE In(offer) # {}
        BY <2>1, <2>2, <2>3, <3>1 DEF TagHasRow, In
      <3>2. CASE In(offer) = {}
        <4>1. ~Carries(t)
          BY <1>t, <1>1, <3>2 DEF Carries
        <4> QED BY <1>1, <1>f, <2>1, <2>2, <2>4, <3>2, <4>1, TagMoves DEF CatalogueInv, In
      <3> QED BY <3>1, <3>2
    <2>6. ASSUME causes' = {} PROVE Steady'
      <3>1. Steady /\ OnCourse(t)
        BY <1>f, <1>t, <2>6 DEF CatalogueInv, Steady
      <3>a. \A r \in Releases : after[r] = IF offer[r] # Absent /\ kept[r] \in {Absent, 0} THEN offer[r] ELSE kept[r]
        BY <1>1, <2>1 DEF write_seen_row, In
      <3>2. after = Merged(kept, offer)
        BY <3>a DEF Merged, Listings
      <3>3. latest' # 0 => latest' = pick_latest(after)
        BY <1>t, <1>1, <2>2, <3>1, <3>2 DEF OnCourse
      <3>4. Within(after)
        BY <1>1, <3>1, <3>a DEF Steady, OnCourse, Within, In
      <3>5. \A q \in queued : q[1] \in In(after) /\ q[2] \in {0, after[q[1]]}
        <4>1. \A q \in queued : q[1] \in In(kept) /\ q[2] \in {0, kept[q[1]]}
          BY <1>1, <3>1 DEF Steady
        <4> QED BY <2>1, <3>a, <4>1 DEF In
      <3>6. Idle(t)'
        BY <1>r, <2>4 DEF Idle
      <3> QED BY <1>t, <1>f, <2>2, <2>4, <3>1, <3>3, <3>4, <3>5, <3>6, SteadyMoves DEF Within, In
    <2> QED BY <2>4, <2>5, <2>6 DEF CatalogueInv
  <1> QED BY <1>2, <1>3 DEF CatalogueTypeOK

\* One release is queued and gets its row, or was sent before and is passed over.
LEMMA RecordKeeps ==
    ASSUME CatalogueInv, NEW t \in Task, Record(t)
    PROVE  CatalogueInv'
  <1>t. CatalogueTypeOK /\ ~Idle(t) /\ tasks[t].at = "record"
    BY DEF CatalogueInv, Record, Idle
  <1>1. PICK offer \in Listings, kept \in Listings : offer = tasks[t].offer /\ kept = shown
    BY <1>t, AtWork DEF CatalogueTypeOK
  <1>f. /\ listing' = listing /\ latest' = latest /\ causes' = causes /\ initialized' = initialized
    BY DEF Record
  <1>2. PICK r \in tasks[t].todo :
          /\ \/ shown' = record_seen(t, r) /\ queued' = queued \cup {<<r, offer[r]>>}
             \/ "pruned" \in causes /\ UNCHANGED <<shown, queued>>
          /\ tasks' = [tasks EXCEPT ![t] = Without(tasks[t], r)]
    <2>1. \E r \in tasks[t].todo :
            /\ \/ shown' = record_seen(t, r)
                  /\ queued' = queued \cup {<<r, tasks[t].offer[r]>>}
               \/ "pruned" \in causes /\ UNCHANGED <<shown, queued>>
            /\ tasks' = [tasks EXCEPT ![t] = Without(tasks[t], r)]
      BY DEF Record
    <2> QED BY <1>1, <2>1
  <1>3. PICK after \in Listings : after = write_seen_row({r}, offer) /\ In(after) = In(kept) \cup {r}
    <2>1. {r} \in SUBSET In(offer)
      BY <1>t, <1>1, AtWork
    <2> QED BY <1>t, <1>1, <2>1, RowsGrow DEF CatalogueTypeOK
  <1>4. PICK todo \in SUBSET Releases : todo = tasks[t].todo /\ todo \subseteq In(offer)
    BY <1>t, <1>1, AtWork DEF In
  <1>5. PICK x : x = Without(tasks[t], r)
    OBVIOUS
  <1>6. /\ todo = {r} => x = Resting /\ x.at = "idle"
        /\ todo # {r} => /\ x \in Underway /\ x.at = "record" /\ x.offer = offer
                         /\ x.todo = todo \ {r}
    <2>1. todo = {r} => x = Resting /\ x.at = "idle"
      BY <1>4, <1>5 DEF Resting, Without
    <2>2. ASSUME todo # {r}
          PROVE  x \in Underway /\ x.at = "record" /\ x.offer = offer /\ x.todo = todo \ {r}
      <3>1. PICK y \in Underway : y = tasks[t]
        BY <1>t, AtWork
      <3>2. x = [y EXCEPT !.todo = @ \ {r}] /\ y.todo = todo /\ y.offer = offer /\ y.at = "record"
        BY <1>t, <1>1, <1>4, <1>5, <2>2, <3>1 DEF Without
      <3>3. y.todo \ {r} \in SUBSET Releases
        BY <3>2
      <3> QED BY <3>2, <3>3 DEF Underway
    <2> QED BY <2>1, <2>2
  <1>7. tasks' = [tasks EXCEPT ![t] = x]
    BY <1>2, <1>5
  <1>8. \/ shown' = after /\ queued' = queued \cup {<<r, offer[r]>>}
        \/ "pruned" \in causes /\ shown' = kept /\ queued' = queued
    BY <1>1, <1>2, <1>3 DEF record_seen
  <1>9. /\ CatalogueTypeOK' /\ tasks'[t] = x
        /\ \A u \in Task \ {t} : tasks'[u] = tasks[u]
    <2>1. x \in Underway \cup {Resting} /\ (x.at # "idle" => x.todo \subseteq In(x.offer))
      BY <1>4, <1>6
    <2>2. r \in Releases /\ offer[r] \in Nat
      BY <1>2, <1>4 DEF In, Listings
    <2>3. queued' \subseteq Releases \X Nat /\ shown' \in Listings
      BY <1>t, <1>8, <2>2 DEF CatalogueTypeOK
    <2> QED BY <1>t, <1>f, <1>7, <2>1, <2>3, TaskMoves DEF CatalogueTypeOK
  <1>10. TagHasRow'
    <2>1. In(shown) \subseteq In(shown)' /\ (causes \cap {"pruned", "cut"} = {} => r \in In(shown)')
      BY <1>1, <1>3, <1>8 DEF In
    <2>2. Carries(t) => latest = r \/ Carries(t)'
      <3>1. Carries(t) => latest \in todo
        BY <1>t, <1>4 DEF Carries
      <3>2. latest \in todo /\ latest # r => x.at = "record" /\ latest \in x.todo
        BY <1>6
      <3> QED BY <1>f, <1>9, <3>1, <3>2 DEF Carries
    <2> QED BY <1>f, <1>9, <2>1, <2>2, TagMoves DEF CatalogueInv
  <1>11. ASSUME causes' = {} PROVE Steady'
    <2>1. Steady /\ OnCourse(t)
      BY <1>f, <1>t, <1>11 DEF CatalogueInv, Steady
    <2>2. shown' = after /\ queued' = queued \cup {<<r, offer[r]>>}
      BY <1>f, <1>8, <1>11
    <2>3. todo = In(offer) \ In(kept) /\ r \in todo
      BY <1>t, <1>1, <1>2, <1>4, <2>1 DEF OnCourse
    <2>a. \A q \in Releases : after[q] = IF q = r THEN offer[r] ELSE kept[q]
      BY <1>1, <1>3, <2>3 DEF write_seen_row, In
    <2>4. Merged(after, offer) = Merged(kept, offer)
      BY <2>a, <2>3 DEF Merged, In
    <2>5. Within(after)
      BY <1>1, <1>3, <2>1, <2>3, <2>a DEF Steady, OnCourse, Within, In
    <2>6. \A q \in queued' : q[1] \in In(after) /\ q[2] \in {0, after[q[1]]}
      <3>1. \A q \in queued : q[1] \in In(kept) /\ q[2] \in {0, kept[q[1]]}
        BY <1>1, <2>1 DEF Steady
      <3>2. \A q \in queued : q[1] \in In(after) /\ q[2] \in {0, after[q[1]]}
        BY <1>3, <2>3, <2>a, <3>1 DEF In
      <3>3. r \in In(after) /\ offer[r] = after[r]
        BY <1>3, <2>3, <2>a DEF In
      <3> QED BY <2>2, <3>2, <3>3
    <2>7. \A q \in In(offer) \cap In(after) : after[q] = 0 => offer[q] = 0
      <3>1. \A q \in In(offer) \cap In(kept) : kept[q] = 0 => offer[q] = 0
        BY <1>t, <1>1, <2>1 DEF OnCourse
      <3> QED BY <1>3, <2>a, <3>1 DEF In
    <2>8. latest # 0 => latest = pick_latest(Merged(after, offer))
      BY <1>t, <1>1, <2>1, <2>4 DEF OnCourse
    <2>9. CASE todo = {r}
      <3>1. Merged(after, offer) = after
        <4>1. \A q \in Releases : offer[q] # Absent => after[q] # Absent /\ (after[q] = 0 => offer[q] = 0)
          BY <1>3, <2>3, <2>7, <2>9 DEF In
        <4> QED BY <4>1 DEF Merged, Listings
      <3>2. Idle(t)'
        BY <1>6, <1>9, <2>9 DEF Idle
      <3> QED BY <1>t, <1>f, <1>9, <2>1, <2>2, <2>5, <2>6, <2>8, <3>1, <3>2, SteadyMoves DEF Within, In
    <2>10. CASE todo # {r}
      <3>1. x.at = "record" /\ x.offer = offer /\ x.todo = In(offer) \ In(after)
        BY <1>3, <1>6, <2>3, <2>10
      <3>2. Within(offer) /\ (In(offer) = {} \/ pick_latest(offer) = pick_latest(Merged(after, offer)))
        BY <1>1, <2>1, <2>4 DEF OnCourse
      <3>3. OnCourse(t)'
        BY <1>f, <1>9, <2>2, <2>7, <2>8, <3>1, <3>2 DEF OnCourse, Within, Merged, In
      <3>4. ~Idle(t)'
        BY <1>9, <3>1 DEF Idle
      <3> QED BY <1>t, <1>f, <1>9, <2>1, <2>2, <2>5, <2>6, <3>3, <3>4, SteadyMoves DEF Within, In
    <2> QED BY <2>9, <2>10
  <1> QED BY <1>9, <1>10, <1>11 DEF CatalogueInv

\* A task cut short: from here on only the types are left to hold.
LEMMA CutKeeps ==
    ASSUME CatalogueInv, NEW t \in Task, Cut(t)
    PROVE  CatalogueInv'
  <1>t. CatalogueTypeOK /\ ~Idle(t)
    BY DEF CatalogueInv, Cut
  <1>1. /\ tasks' = [tasks EXCEPT ![t] = Resting] /\ "cut" \in causes'
        /\ listing' = listing /\ shown' = shown /\ latest' = latest /\ initialized' = initialized
    BY DEF Cut
  <1>2. queued' \subseteq Releases \X Nat
    <2>1. \A r \in tasks[t].todo : r \in Releases /\ tasks[t].offer[r] \in Nat
      BY <1>t, AtWork DEF In, Listings
    <2> QED BY <1>t, <2>1 DEF Cut, CatalogueTypeOK
  <1>3. CatalogueTypeOK'
    <2>1. Resting.at = "idle"
      BY DEF Resting
    <2> QED BY <1>t, <1>1, <1>2, <2>1, TaskMoves DEF CatalogueTypeOK
  <1> QED BY <1>1, <1>3, TypesSuffice

\* A row pruned: the same.
LEMMA PruneKeeps ==
    ASSUME CatalogueInv, prune
    PROVE  CatalogueInv'
  <1>t. CatalogueTypeOK
    BY DEF CatalogueInv
  <1>1. /\ "pruned" \in causes' /\ listing' = listing /\ tasks' = tasks /\ queued' = queued
        /\ latest' = latest /\ initialized' = initialized
    BY DEF prune
  <1>2. shown' \in Listings
    BY <1>t DEF prune, CatalogueTypeOK, Listings
  <1>3. CatalogueTypeOK'
    BY <1>t, <1>1, <1>2 DEF CatalogueTypeOK, Idle, In
  <1> QED BY <1>1, <1>3, TypesSuffice

\* A notification sent: its row is there already, unless something went wrong.
LEMMA CompleteKeeps ==
    ASSUME CatalogueInv, complete_notification
    PROVE  CatalogueInv'
  <1>t. CatalogueTypeOK
    BY DEF CatalogueInv
  <1>f. /\ listing' = listing /\ tasks' = tasks /\ causes' = causes /\ latest' = latest
        /\ initialized' = initialized
    BY DEF complete_notification
  <1>1. PICK q \in queued :
          /\ shown' = write_seen_row({q[1]}, [None EXCEPT ![q[1]] = q[2]])
          /\ queued' = queued \ {q}
    BY DEF complete_notification
  <1>2. PICK r \in Releases, d \in Nat : q = <<r, d>>
    BY <1>t DEF CatalogueTypeOK
  <1>3. q[1] = r /\ q[2] = d
    BY <1>2
  <1>a. PICK offer \in Listings : offer = [None EXCEPT ![r] = d]
    BY <1>2 DEF None, Listings
  <1>4. offer[r] = d /\ In(offer) = {r}
    BY <1>2, <1>a DEF None, In, Absent
  <1>5. shown' = write_seen_row({r}, offer)
    BY <1>1, <1>3, <1>a
  <1>6. shown' \in Listings /\ In(shown) \subseteq In(shown)'
    <2>1. {r} \in SUBSET In(offer)
      BY <1>4
    <2> QED BY <1>t, <1>5, <2>1, RowsGrow DEF CatalogueTypeOK
  <1>7. CatalogueTypeOK'
    BY <1>t, <1>f, <1>1, <1>6 DEF CatalogueTypeOK, Idle, In
  <1>8. TagHasRow'
    BY <1>f, <1>6 DEF CatalogueInv, TagHasRow, Carries, In
  <1>9. ASSUME causes' = {} PROVE Steady'
    <2>1. Steady
      BY <1>f, <1>9 DEF CatalogueInv
    <2>2. shown[r] # Absent /\ d \in {0, shown[r]}
      BY <1>1, <1>3, <2>1 DEF Steady, In
    <2>3. \A p \in Releases : shown'[p] = shown[p]
      BY <1>4, <1>5, <2>2 DEF write_seen_row
    <2>4. shown' = shown
      BY <1>t, <1>6, <2>3 DEF CatalogueTypeOK, Listings
    <2>5. queued' \subseteq queued
      BY <1>1
    <2>6. \A t \in Task : OnCourse(t)' = OnCourse(t) /\ Idle(t)' = Idle(t)
      BY <1>f, <2>4 DEF OnCourse, Within, Merged, Idle, In
    <2>7. Within(shown)' = Within(shown) /\ In(shown)' = In(shown) /\ AtRest' = AtRest
      BY <1>f, <2>4 DEF Within, AtRest, Idle, In
    <2> QED BY <1>f, <2>1, <2>4, <2>5, <2>6, <2>7 DEF Steady
  <1> QED BY <1>7, <1>8, <1>9 DEF CatalogueInv

(* The catalogue: the rows, the tasks and the latest release stay in step, *)
(* whatever the listings, the dates and the order of polls, webhooks,      *)
(* deliveries and prunes.                                                  *)
THEOREM CatalogueInvariance == CatalogueSpec => []CatalogueInv
  <1>1. CatalogueInv /\ [CatalogueNext]_catalogueVars => CatalogueInv'
    <2> SUFFICES ASSUME CatalogueInv, [CatalogueNext]_catalogueVars PROVE CatalogueInv'
      OBVIOUS
    <2>1. CASE UNCHANGED catalogueVars
      <3>1. /\ listing' = listing /\ shown' = shown /\ latest' = latest /\ tasks' = tasks
            /\ initialized' = initialized /\ queued' = queued /\ causes' = causes
        BY <2>1 DEF catalogueVars
      <3>2. CatalogueTypeOK' /\ TagHasRow'
        BY <3>1 DEF CatalogueInv, CatalogueTypeOK, TagHasRow, Carries, Idle, In
      <3>3. causes' = {} => Steady'
        BY <3>1 DEF CatalogueInv, Steady, Within, OnCourse, Merged, AtRest, Idle, In
      <3> QED BY <3>2, <3>3 DEF CatalogueInv
    <2>2. ASSUME NEW t \in Task, SetLatest(t) \/ Enrich(t) \/ Select(t) \/ Record(t) \/ Cut(t)
          PROVE  CatalogueInv'
      BY <2>2, SetLatestKeeps, EnrichKeeps, SelectKeeps, RecordKeeps, CutKeeps
    <2> QED BY <2>1, <2>2, UpstreamKeeps, PollKeeps, RefreshKeeps, HookKeeps, CompleteKeeps,
               PruneKeeps DEF CatalogueNext
  <1> QED BY <1>1, InitCatalogue, PTL DEF CatalogueSpec

(* The date on the sources page is that of the release named beside it, and*)
(* both pages name the newest release of the catalogue                     *)
(* (latest_seen_by_source, effective_latest_release_tag).                  *)
THEOREM PagesAlwaysAgree == CatalogueSpec => []PagesAgree
  <1>1. CatalogueInv => PagesAgree
    <2> SUFFICES ASSUME CatalogueInv PROVE PagesAgree
      OBVIOUS
    <2>1. DateBesideTag
      <3> SUFFICES ASSUME AtRest, causes \cap {"pruned", "cut"} = {}, latest # 0,
                          NEW v \in source_details
                   PROVE  v.row = v.tag
        BY DEF DateBesideTag
      <3>1. latest \in In(shown)
        BY DEF CatalogueInv, TagHasRow, Carries, AtRest, Idle
      <3>2. PICK r \in latest_seen_by_source : v = [tag |-> effective_latest_release_tag(r), row |-> r]
        BY DEF source_details
      <3>3. r = latest
        BY <3>1, <3>2 DEF latest_seen_by_source
      <3> QED BY <3>2, <3>3 DEF effective_latest_release_tag
    <2>2. LatestIsNewest
      <3> SUFFICES ASSUME AtRest, causes = {}, latest # 0
                   PROVE  source_detail.tag = source_detail.row
        BY DEF LatestIsNewest
      <3>1. latest = pick_latest(shown)
        BY DEF CatalogueInv, Steady
      <3> QED BY <3>1 DEF source_detail, effective_latest_release_tag, list_seen_releases
    <2> QED BY <2>1, <2>2 DEF PagesAgree
  <1> QED BY <1>1, CatalogueInvariance, PTL

----------------------------------------------------------------------------
(* Start-up: types.                                                        *)

Serving  == {"leased", "seed", "seeded", "up"}
Stages   == {"open", "schema", "migrate", "stamp", "rewrite", "stamp_next", "secrets", "ready"}
              \cup Serving
Keys     == {from_env(env) : env \in Envs}
Configs  == {apply_env_overrides(file, env) : file \in Files, env \in Envs}
Process  == [at : Stages, cmd : Commands, file : Files, env : Envs, cfg : Configs]
Database == [version : Nat, dated : BOOLEAN, users : Nat, lock : Procs \cup {"free"},
             lease : Procs \cup {"free"},
             secret : [value : Savable \cup {""}, by : Keys \cup {"none"}]]
History  == [keys : SUBSET Keys, plain : BOOLEAN, skipped : BOOLEAN]

StartupTypeOK ==
    /\ running \in [Procs -> Process \cup {Down}]
    /\ db \in Database
    /\ past \in History

----------------------------------------------------------------------------
(* Start-up: what the properties rest on.                                  *)

\* A process: the settings it read, the lease it serves under, the users it
\* counted, the migration it is about to stamp, the key it was told.
Holds(p, y) ==
    /\ y.at # "down" => y.cfg = apply_env_overrides(y.file, y.env)
    /\ y.at \in Serving => db.lease = p
    /\ y.at = "seed" => db.users = 0
    /\ y.at = "stamp_next" => past.skipped \/ ~db.dated
    /\ y.at = "up" => /\ from_env(y.env) \in past.keys
                      /\ plaintext_ledger_allowed(y.env) => past.plain

\* The secret was sealed under a key of some server, or in plaintext as allowed.
Sealed ==
    /\ db.secret.by \in past.keys \cup {"none"}
    /\ PlainIsAsked

\* What a process that gave up has found in its settings.
Refused(why, cfg, env) ==
    CASE why = "url"    -> ~Present(cfg.postgres_url) \/ ~UrlParses(cfg)
      [] why = "tls"    -> ~build_tls_connector(cfg)
      [] why = "key"    -> ~parse_key(env)
      [] why = "auth"   -> cfg.require_auth /\ ~server_auth_configured(cfg)
      [] why = "listen" -> cfg.listen # "addr"
      [] why = "apply"  -> cfg.api_config /\ ~server_auth_configured(cfg)
      [] why = "admin"  -> cfg.admin_username = ""
      [] OTHER          -> TRUE

\* What the last process to end said.
Exited ==
    /\ SeedsOnce /\ SameKeyReopens
    /\ exits.why # "none" =>
         Refused(exits.why, apply_env_overrides(exits.file, exits.env), exits.env)

\* What the last validation accepted.
Judged ==
    verdict.valid =>
        /\ verdict.file \in Files
        /\ validate_database(apply_env_overrides(verdict.file, verdict.env), verdict.env)
        /\ validate_api(apply_env_overrides(verdict.file, verdict.env), verdict.env)

StartupInv ==
    /\ StartupTypeOK
    /\ \A p \in Procs : Holds(p, running[p])
    /\ VersionIsTrue /\ Sealed /\ Exited /\ Judged

----------------------------------------------------------------------------
(* Start-up: how a step changes the state.                                 *)

MovedTo(y, stage) == [y EXCEPT !.at = stage]

\* A process that goes on keeps its command and its settings.
LEMMA Moved ==
    ASSUME NEW y \in Process, NEW stage \in Stages
    PROVE  /\ MovedTo(y, stage) \in Process /\ MovedTo(y, stage).at = stage
           /\ MovedTo(y, stage).cfg = y.cfg /\ MovedTo(y, stage).file = y.file
           /\ MovedTo(y, stage).env = y.env
  BY DEF MovedTo, Process

\* A process that is not down is one of the processes started.
LEMMA Runs ==
    ASSUME StartupTypeOK, NEW p \in Procs, Running(p)
    PROVE  running[p] \in Process
  BY DEF StartupTypeOK, Running, Down

\* What a session held goes with it, and nothing else.
LEMMA SessionEnds ==
    ASSUME NEW d \in Database, NEW p \in Procs
    PROVE  /\ Released(p, d) \in Database
           /\ Released(p, d).version = d.version /\ Released(p, d).dated = d.dated
           /\ Released(p, d).users = d.users /\ Released(p, d).secret = d.secret
           /\ \A q \in Procs \ {p} : d.lease = q => Released(p, d).lease = q
           /\ d.lease # p => Released(p, d).lease = d.lease
  BY DEF Released, Database

\* A step of one process: what it owes the others, and what the rest follows from.
LEMMA StartupStepKeeps ==
    ASSUME StartupInv, NEW p \in Procs, NEW x \in Process \cup {Down},
           running' = [running EXCEPT ![p] = x], db' \in Database, past' \in History,
           past.keys \subseteq past'.keys, past.plain => past'.plain,
           past.skipped => past'.skipped,
           \A q \in Procs \ {p} : db.lease = q => db'.lease = q,
           db'.users = db.users \/ db.lease = p,
           db'.dated => \/ db.dated \/ past'.skipped
                        \/ \A q \in Procs : ~At(q, "stamp_next"),
           Holds(p, x)', VersionIsTrue', Sealed', Exited', Judged'
    PROVE  StartupInv'
  <1>1. running' \in [Procs -> Process \cup {Down}] /\ running'[p] = x
    BY DEF StartupInv, StartupTypeOK
  <1>2. ASSUME NEW q \in Procs, q # p PROVE Holds(q, running[q])'
    <2>1. running'[q] = running[q] /\ Holds(q, running[q])
      BY <1>2 DEF StartupInv, StartupTypeOK
    <2>2. running[q].at = "seed" => db'.users = 0
      BY <1>2, <2>1 DEF Holds, Serving
    <2>3. running[q].at = "stamp_next" => past'.skipped \/ ~db'.dated
      BY <1>2, <2>1 DEF Holds, At
    <2>4. running[q].at \in Serving => db'.lease = q
      BY <1>2, <2>1 DEF Holds
    <2>5. running[q].at = "up" => /\ from_env(running[q].env) \in past'.keys
                                  /\ plaintext_ledger_allowed(running[q].env) => past'.plain
      BY <2>1 DEF Holds
    <2> QED BY <2>1, <2>2, <2>3, <2>4, <2>5 DEF Holds
  <1>3. \A q \in Procs : Holds(q, running[q])'
    BY <1>1, <1>2
  <1> QED BY <1>1, <1>3 DEF StartupInv, StartupTypeOK

\* A step that changes neither the store nor what is remembered.
LEMMA OwnStep ==
    ASSUME StartupInv, NEW p \in Procs, NEW stage \in Stages, Running(p), Proceeds(p, stage),
           UNCHANGED <<db, exits, verdict, past>>,
           stage \in Serving => running[p].at \in Serving,
           stage \in {"seed", "stamp_next", "up"} => Holds(p, MovedTo(running[p], stage))
    PROVE  StartupInv'
  <1>1. PICK x : x = MovedTo(running[p], stage)
    OBVIOUS
  <1>2. running[p] \in Process /\ Holds(p, running[p])
    BY Runs DEF StartupInv
  <1>3. x \in Process /\ x.at = stage /\ x.cfg = running[p].cfg /\ x.file = running[p].file
        /\ x.env = running[p].env
    BY <1>1, <1>2, Moved
  <1>4. running' = [running EXCEPT ![p] = x] /\ db' = db /\ past' = past
    BY <1>1 DEF Proceeds, MovedTo
  <1>5. Holds(p, x)'
    BY <1>1, <1>2, <1>3, <1>4 DEF Holds, Running
  <1>6. VersionIsTrue' /\ Sealed' /\ Exited' /\ Judged'
    BY <1>4 DEF StartupInv, VersionIsTrue, Sealed, PlainIsAsked, Exited, SeedsOnce, SameKeyReopens,
       Judged
  <1> QED BY <1>3, <1>4, <1>5, <1>6, StartupStepKeeps DEF StartupInv, StartupTypeOK

\* A process that ends says why, for reasons that are in its settings and its key.
LEMMA EndKeeps ==
    ASSUME StartupInv, NEW p \in Procs, Running(p), NEW why, Ends(p, why, db),
           why # "seed", Refused(why, running[p].cfg, running[p].env),
           why = "secret" => ~open_secret_ciphertext(running[p].env)
    PROVE  StartupInv'
  <1>1. running[p] \in Process /\ Holds(p, running[p])
    BY Runs DEF StartupInv
  <1>2. /\ running' = [running EXCEPT ![p] = Down] /\ db' = Released(p, db)
        /\ past' = past /\ verdict' = verdict
    BY DEF Ends
  <1>3. /\ exits'.why = why /\ exits'.file = running[p].file /\ exits'.env = running[p].env
    BY DEF Ends
  <1>4. /\ db' \in Database /\ db'.version = db.version /\ db'.dated = db.dated
        /\ db'.users = db.users /\ db'.secret = db.secret
        /\ \A q \in Procs \ {p} : db.lease = q => db'.lease = q
    BY <1>2, SessionEnds DEF StartupInv, StartupTypeOK
  <1>5. Holds(p, Down)'
    BY DEF Holds, Down, Serving
  <1>6. VersionIsTrue' /\ Sealed' /\ Judged'
    BY <1>2, <1>4 DEF StartupInv, VersionIsTrue, Sealed, PlainIsAsked, Judged
  <1>7. Exited'
    <2>1. SeedsOnce'
      BY <1>3 DEF SeedsOnce
    <2>2. SameKeyReopens'
      <3>1. ASSUME why = "secret" PROVE \E key \in past.keys \ {"plain"} : key # from_env(running[p].env)
        BY <3>1 DEF open_secret_ciphertext, StartupInv, Sealed
      <3> QED BY <1>2, <1>3, <3>1 DEF SameKeyReopens
    <2>3. running[p].cfg = apply_env_overrides(running[p].file, running[p].env)
      BY <1>1 DEF Holds, Running
    <2> QED BY <1>3, <2>1, <2>2, <2>3 DEF Exited
  <1> QED BY <1>2, <1>4, <1>5, <1>6, <1>7, StartupStepKeeps DEF StartupInv, StartupTypeOK

\* A store that does not open ends the process, or leaves it to validate offline.
LEMMA OpenKeeps ==
    ASSUME StartupInv, NEW p \in Procs, Running(p),
           NEW why \in {"url", "tls", "database", "key", "version", "secret"},
           OpenFails(p, why), Refused(why, running[p].cfg, running[p].env),
           why = "secret" => ~open_secret_ciphertext(running[p].env)
    PROVE  StartupInv'
  <1>1. CASE Ends(p, why, db)
    BY <1>1, EndKeeps
  <1>2. CASE Proceeds(p, "ready") /\ db' = Released(p, db) /\ UNCHANGED <<exits, verdict, past>>
    <2>1. running[p] \in Process /\ Holds(p, running[p])
      BY Runs DEF StartupInv
    <2>2. PICK x : x = MovedTo(running[p], "ready")
      OBVIOUS
    <2>3. x \in Process /\ x.at = "ready" /\ x.cfg = running[p].cfg /\ x.file = running[p].file
          /\ x.env = running[p].env
      BY <2>1, <2>2, Moved DEF Stages
    <2>4. running' = [running EXCEPT ![p] = x] /\ past' = past
      BY <1>2, <2>2 DEF Proceeds, MovedTo
    <2>5. /\ db' \in Database /\ db'.version = db.version /\ db'.dated = db.dated
          /\ db'.users = db.users /\ db'.secret = db.secret
          /\ \A q \in Procs \ {p} : db.lease = q => db'.lease = q
      BY <1>2, SessionEnds DEF StartupInv, StartupTypeOK
    <2>6. Holds(p, x)'
      BY <2>1, <2>3 DEF Holds, Serving, Running
    <2>7. VersionIsTrue' /\ Sealed' /\ Exited' /\ Judged'
      BY <1>2, <2>5 DEF StartupInv, VersionIsTrue, Sealed, PlainIsAsked, Exited, SeedsOnce,
         SameKeyReopens, Judged
    <2> QED BY <2>3, <2>4, <2>5, <2>6, <2>7, StartupStepKeeps DEF StartupInv, StartupTypeOK
  <1> QED BY <1>1, <1>2 DEF OpenFails

----------------------------------------------------------------------------
(* Start-up: every step keeps it.                                          *)

LEMMA InitStartup == StartupInit => StartupInv
  <1> SUFFICES ASSUME StartupInit PROVE StartupInv
    OBVIOUS
  <1>1. /\ db \in [version : Nat, dated : BOOLEAN, users : Nat, lock : {"free"}, lease : {"free"},
                   secret : {[value |-> "", by |-> "none"]}]
        /\ db.version = 2 => ~db.dated
    BY StartupAssumption DEF StartupInit
  <1>2. StartupTypeOK
    <2>1. [value |-> "", by |-> "none"] \in [value : Savable \cup {""}, by : Keys \cup {"none"}]
      OBVIOUS
    <2>2. db \in Database
      BY <1>1, <2>1 DEF Database
    <2>3. past = [keys |-> {}, plain |-> FALSE, skipped |-> FALSE] /\ running = [p \in Procs |-> Down]
      BY DEF StartupInit
    <2>4. past \in History
      BY <2>3 DEF History
    <2> QED BY <2>2, <2>3, <2>4 DEF StartupTypeOK
  <1>3. \A p \in Procs : Holds(p, running[p])
    BY DEF StartupInit, Holds, Down, Serving
  <1>4. VersionIsTrue /\ Sealed
    <2>1. PICK secret : secret = [value |-> "", by |-> "none"]
      OBVIOUS
    <2>2. db.secret = secret /\ secret.by = "none"
      BY <1>1, <2>1
    <2> QED BY <1>1, <2>2 DEF VersionIsTrue, Sealed, PlainIsAsked
  <1>5. Exited /\ Judged
    BY DEF StartupInit, Exited, SeedsOnce, SameKeyReopens, NoExit, Judged
  <1> QED BY <1>2, <1>3, <1>4, <1>5 DEF StartupInv

\* A process is started with the settings of the moment.
LEMMA BeginKeeps ==
    ASSUME StartupInv, NEW p \in Procs, NEW cmd \in Commands, NEW file \in Files, NEW env \in Envs,
           Start(p, cmd, file, env)
    PROVE  StartupInv'
  <1>1. PICK x : x = [at |-> "open", cmd |-> cmd, file |-> file, env |-> env,
                      cfg |-> apply_env_overrides(file, env)]
    OBVIOUS
  <1>2. /\ running' = [running EXCEPT ![p] = x] /\ exits' = NoExit
        /\ db' = db /\ verdict' = verdict /\ past' = past
    BY <1>1 DEF Start
  <1>3. apply_env_overrides(file, env) \in Configs
    BY DEF Configs
  <1>4. x \in Process
    BY <1>1, <1>3 DEF Process, Stages
  <1>5. Holds(p, x)'
    BY <1>1 DEF Holds, Serving
  <1>6. VersionIsTrue' /\ Sealed' /\ Exited' /\ Judged'
    BY <1>2 DEF StartupInv, VersionIsTrue, Sealed, PlainIsAsked, Exited, SeedsOnce, SameKeyReopens,
       NoExit, Judged
  <1> QED BY <1>2, <1>4, <1>5, <1>6, StartupStepKeeps DEF StartupInv, StartupTypeOK

\* Opening: the connection and the key, then the lock of the migrations.
LEMMA ConnectKeeps ==
    ASSUME StartupInv, NEW p \in Procs, Connect(p)
    PROVE  StartupInv'
  <1>1. Running(p)
    BY DEF Connect, At, Running
  <1>2. ASSUME NEW why \in {"url", "tls", "database", "key"}, OpenFails(p, why),
               Refused(why, running[p].cfg, running[p].env)
        PROVE  StartupInv'
    BY <1>1, <1>2, OpenKeeps
  <1>3. CASE Proceeds(p, "schema") /\ UNCHANGED <<db, exits, verdict, past>>
    BY <1>1, <1>3, OwnStep DEF Stages, Serving
  <1>4. \/ \E why \in {"url", "tls", "database", "key"} :
              OpenFails(p, why) /\ Refused(why, running[p].cfg, running[p].env)
        \/ Proceeds(p, "schema") /\ UNCHANGED <<db, exits, verdict, past>>
    BY DEF Connect, Refused
  <1> QED BY <1>2, <1>3, <1>4

\* A process that goes on with the store in hand, which it leaves true and sealed.
LEMMA StoreStep ==
    ASSUME StartupInv, NEW p \in Procs, NEW stage \in Stages, Running(p), Proceeds(p, stage),
           UNCHANGED <<exits, verdict>>, db' \in Database, past' \in History,
           past'.keys = past.keys, past'.plain = past.plain, past.skipped => past'.skipped,
           db'.secret = db.secret, db'.lease = db.lease, db'.users = db.users,
           db'.dated => db.dated, VersionIsTrue',
           stage \notin Serving, stage = "stamp_next" => ~db'.dated
    PROVE  StartupInv'
  <1>1. PICK x : x = MovedTo(running[p], stage)
    OBVIOUS
  <1>2. running[p] \in Process /\ Holds(p, running[p])
    BY Runs DEF StartupInv
  <1>3. x \in Process /\ x.at = stage /\ x.cfg = running[p].cfg /\ x.file = running[p].file
        /\ x.env = running[p].env
    BY <1>1, <1>2, Moved
  <1>4. running' = [running EXCEPT ![p] = x]
    BY <1>1 DEF Proceeds, MovedTo
  <1>5. Holds(p, x)'
    BY <1>2, <1>3 DEF Holds, Running, Serving
  <1>6. Sealed' /\ Exited' /\ Judged'
    BY DEF StartupInv, Sealed, PlainIsAsked, Exited, SeedsOnce, SameKeyReopens, Judged
  <1> QED BY <1>3, <1>4, <1>5, <1>6, StartupStepKeeps

LEMMA LockKeeps ==
    ASSUME StartupInv, NEW p \in Procs, Lock(p)
    PROVE  StartupInv'
  <1>1. Running(p) /\ Proceeds(p, "migrate") /\ UNCHANGED <<exits, verdict, past>>
    BY DEF Lock, At, Running
  <1>2. /\ db' \in Database /\ db'.secret = db.secret /\ db'.lease = db.lease
        /\ db'.users = db.users /\ db'.dated = db.dated /\ db'.version = db.version
    BY DEF Lock, StartupInv, StartupTypeOK, Database
  <1>3. VersionIsTrue'
    BY <1>1, <1>2 DEF StartupInv, VersionIsTrue
  <1> QED BY <1>1, <1>2, <1>3, StoreStep DEF Stages, Serving, StartupInv, StartupTypeOK

\* Whoever migrated leaves the version and the dates that it says.
LEMMA MigratedKeeps ==
    ASSUME StartupInv, NEW p \in Procs, Running(p), NEW d \in Database, NEW skipped \in BOOLEAN,
           MigrationDone(p, d, skipped),
           d.secret = db.secret, d.lease = db.lease, d.users = db.users, d.dated = db.dated,
           d.version = 2 /\ d.dated => db.version = 2 \/ skipped
    PROVE  StartupInv'
  <1>1. /\ Proceeds(p, "secrets") /\ UNCHANGED <<exits, verdict>>
        /\ db' = [d EXCEPT !.lock = IF @ = p THEN "free" ELSE @]
        /\ past' = [past EXCEPT !.skipped = @ \/ skipped]
    BY DEF MigrationDone
  <1>2. /\ db' \in Database /\ db'.secret = d.secret /\ db'.lease = d.lease
        /\ db'.users = d.users /\ db'.dated = d.dated /\ db'.version = d.version
    BY <1>1 DEF Database
  <1>3. /\ past' \in History /\ past'.keys = past.keys /\ past'.plain = past.plain
        /\ past'.skipped = (past.skipped \/ skipped)
    BY <1>1 DEF StartupInv, StartupTypeOK, History
  <1>4. VersionIsTrue'
    BY <1>2, <1>3 DEF StartupInv, VersionIsTrue
  <1> QED BY <1>1, <1>2, <1>3, <1>4, StoreStep DEF Stages, Serving

LEMMA ReadVersionKeeps ==
    ASSUME StartupInv, NEW p \in Procs, ReadVersion(p)
    PROVE  StartupInv'
  <1>1. Running(p) /\ db \in Database
    BY DEF ReadVersion, At, Running, StartupInv, StartupTypeOK
  <1>2. CASE OpenFails(p, "version")
    BY <1>1, <1>2, OpenKeeps DEF Refused
  <1>3. CASE MigrationDone(p, db, FALSE)
    BY <1>1, <1>3, MigratedKeeps
  <1>4. ASSUME NEW stage \in {"stamp", "rewrite"}, Proceeds(p, stage),
               UNCHANGED <<db, exits, verdict, past>>
        PROVE  StartupInv'
    BY <1>1, <1>4, OwnStep DEF Stages, Serving
  <1> QED BY <1>2, <1>3, <1>4 DEF ReadVersion

\* A database without a version is taken for current, which may skip a step.
LEMMA StampBaselineKeeps ==
    ASSUME StartupInv, NEW p \in Procs, StampBaseline(p)
    PROVE  StartupInv'
  <1>1. Running(p) /\ Binary[p] \in Nat
    BY StartupAssumption DEF StampBaseline, At, Running
  <1>2. PICK d : d = [db EXCEPT !.version = Binary[p]]
    OBVIOUS
  <1>3. /\ d \in Database /\ d.secret = db.secret /\ d.lease = db.lease /\ d.users = db.users
        /\ d.dated = db.dated /\ d.version = Binary[p]
    BY <1>1, <1>2 DEF StartupInv, StartupTypeOK, Database
  <1>4. PICK skipped \in BOOLEAN : skipped <=> db.dated /\ Binary[p] = 2
    OBVIOUS
  <1>5. MigrationDone(p, d, skipped)
    BY <1>2, <1>4 DEF StampBaseline, StartupInv, StartupTypeOK, Database
  <1> QED BY <1>1, <1>3, <1>4, <1>5, MigratedKeeps

LEMMA RunMigrationKeeps ==
    ASSUME StartupInv, NEW p \in Procs, RunMigration(p)
    PROVE  StartupInv'
  <1>1. Running(p) /\ Proceeds(p, "stamp_next") /\ UNCHANGED <<exits, verdict, past>>
    BY DEF RunMigration, At, Running
  <1>2. /\ db' \in Database /\ db'.secret = db.secret /\ db'.lease = db.lease
        /\ db'.users = db.users /\ db'.dated = FALSE
    BY DEF RunMigration, StartupInv, StartupTypeOK, Database
  <1>3. VersionIsTrue'
    BY <1>2 DEF VersionIsTrue
  <1> QED BY <1>1, <1>2, <1>3, StoreStep DEF Stages, Serving, StartupInv, StartupTypeOK

\* The step's stamp follows the step: nobody dated a row in between unseen.
LEMMA StampNextKeeps ==
    ASSUME StartupInv, NEW p \in Procs, StampNext(p)
    PROVE  StartupInv'
  <1>1. /\ Running(p) /\ At(p, "stamp_next") /\ Proceeds(p, "migrate")
        /\ UNCHANGED <<exits, verdict, past>>
    BY DEF StampNext, At, Running
  <1>2. /\ db' \in Database /\ db'.secret = db.secret /\ db'.lease = db.lease
        /\ db'.users = db.users /\ db'.dated = db.dated
    <2>a. db \in Database /\ db.version \in Nat
      BY DEF StartupInv, StartupTypeOK, Database
    <2>1. db.version + 1 \in Nat
      BY <2>a
    <2>2. db' = [db EXCEPT !.version = db.version + 1]
      BY DEF StampNext
    <2> QED BY <2>a, <2>1, <2>2 DEF Database
  <1>3. past.skipped \/ ~db.dated
    BY <1>1 DEF StartupInv, Holds, At
  <1>4. VersionIsTrue'
    BY <1>1, <1>2, <1>3 DEF VersionIsTrue
  <1> QED BY <1>1, <1>2, <1>4, StoreStep DEF Stages, Serving, StartupInv, StartupTypeOK

LEMMA LoadKeeps ==
    ASSUME StartupInv, NEW p \in Procs, load_app_secrets_into_vault(p)
    PROVE  StartupInv'
  <1>1. Running(p)
    BY DEF load_app_secrets_into_vault, At, Running
  <1>2. CASE OpenFails(p, "secret") /\ ~open_secret_ciphertext(running[p].env)
    BY <1>1, <1>2, OpenKeeps DEF Refused
  <1>3. CASE Proceeds(p, "ready") /\ UNCHANGED <<db, exits, verdict, past>>
    BY <1>1, <1>3, OwnStep DEF Stages, Serving
  <1> QED BY <1>2, <1>3 DEF load_app_secrets_into_vault

\* A validation reports on the settings it was started with.
LEMMA ReportKeeps ==
    ASSUME StartupInv, NEW p \in Procs, Running(p), NEW strict, NEW probes,
           Reports(p, strict, probes)
    PROVE  StartupInv'
  <1>1. running[p] \in Process /\ Holds(p, running[p])
    BY Runs DEF StartupInv
  <1>2. /\ running' = [running EXCEPT ![p] = Down] /\ db' = Released(p, db)
        /\ past' = past /\ exits' = exits
    BY DEF Reports
  <1>3. /\ db' \in Database /\ db'.version = db.version /\ db'.dated = db.dated
        /\ db'.users = db.users /\ db'.secret = db.secret
        /\ \A q \in Procs \ {p} : db.lease = q => db'.lease = q
    BY <1>2, SessionEnds DEF StartupInv, StartupTypeOK
  <1>4. Holds(p, Down)'
    BY DEF Holds, Down, Serving
  <1>5. VersionIsTrue' /\ Sealed' /\ Exited'
    BY <1>2, <1>3 DEF StartupInv, VersionIsTrue, Sealed, PlainIsAsked, Exited, SeedsOnce,
       SameKeyReopens
  <1>6. Judged'
    <2>1. PICK valid : valid = validate_offline(running[p].cfg, running[p].env, strict, probes)
      OBVIOUS
    <2>2. /\ verdict'.valid = valid /\ verdict'.file = running[p].file
          /\ verdict'.env = running[p].env
      BY <2>1 DEF Reports
    <2>3. valid => /\ validate_database(running[p].cfg, running[p].env)
                   /\ validate_api(running[p].cfg, running[p].env)
      BY <2>1 DEF validate_offline
    <2>4. running[p].cfg = apply_env_overrides(running[p].file, running[p].env)
      BY <1>1 DEF Holds, Running
    <2>5. running[p].file \in Files
      BY <1>1 DEF Process
    <2> QED BY <2>2, <2>3, <2>4, <2>5 DEF Judged
  <1> QED BY <1>2, <1>3, <1>4, <1>5, <1>6, StartupStepKeeps DEF StartupInv, StartupTypeOK

----------------------------------------------------------------------------
(* Start-up: serve.                                                        *)

\* The lease is taken when nobody has it.
LEMMA LeaseKeeps ==
    ASSUME StartupInv, NEW p \in Procs, Lease(p)
    PROVE  StartupInv'
  <1>1. Running(p)
    BY DEF Lease, At, Running
  <1>2. CASE Ends(p, "busy", db)
    BY <1>1, <1>2, EndKeeps DEF Refused
  <1>3. CASE /\ db.lease = "free" /\ db' = [db EXCEPT !.lease = p]
             /\ Proceeds(p, "leased") /\ UNCHANGED <<exits, verdict, past>>
    <2>1. running[p] \in Process /\ Holds(p, running[p])
      BY <1>1, Runs DEF StartupInv
    <2>2. PICK x : x = MovedTo(running[p], "leased")
      OBVIOUS
    <2>3. x \in Process /\ x.at = "leased" /\ x.cfg = running[p].cfg /\ x.file = running[p].file
          /\ x.env = running[p].env
      BY <2>1, <2>2, Moved DEF Stages, Serving
    <2>4. running' = [running EXCEPT ![p] = x]
      BY <1>3, <2>2 DEF Proceeds, MovedTo
    <2>5. /\ db' \in Database /\ db'.version = db.version /\ db'.dated = db.dated
          /\ db'.users = db.users /\ db'.secret = db.secret /\ db'.lease = p
      BY <1>3 DEF StartupInv, StartupTypeOK, Database
    <2>6. \A q \in Procs \ {p} : db.lease # q
      BY <1>3, StartupAssumption
    <2>7. Holds(p, x)'
      BY <1>1, <2>1, <2>3, <2>5 DEF Holds, Running
    <2>8. VersionIsTrue' /\ Sealed' /\ Exited' /\ Judged'
      BY <1>3, <2>5 DEF StartupInv, VersionIsTrue, Sealed, PlainIsAsked, Exited, SeedsOnce,
         SameKeyReopens, Judged
    <2> QED BY <1>3, <2>3, <2>4, <2>5, <2>6, <2>7, <2>8, StartupStepKeeps DEF StartupInv, StartupTypeOK
  <1> QED BY <1>2, <1>3 DEF Lease, try_acquire_poller_lease

LEMMA CheckAuthKeeps ==
    ASSUME StartupInv, NEW p \in Procs, CheckAuth(p)
    PROVE  StartupInv'
  <1>1. /\ Running(p) /\ running[p].at = "leased"
        /\ running[p] \in Process /\ Holds(p, running[p])
    BY Runs DEF CheckAuth, At, Running, StartupInv
  <1>2. ASSUME Ends(p, "auth", db), ~server_auth_configured(running[p].cfg),
               running[p].cfg.require_auth
        PROVE  StartupInv'
    BY <1>1, <1>2, EndKeeps DEF Refused
  <1>3. ASSUME Proceeds(p, "seed"), db.users = 0, UNCHANGED <<db, exits, verdict, past>>
        PROVE  StartupInv'
    <2>1. Holds(p, MovedTo(running[p], "seed"))
      BY <1>1, <1>3, Moved DEF Holds, Serving, Stages, Running
    <2> QED BY <1>1, <1>3, <2>1, OwnStep DEF Stages, Serving
  <1>4. ASSUME Proceeds(p, "seeded"), UNCHANGED <<db, exits, verdict, past>>
        PROVE  StartupInv'
    BY <1>1, <1>4, OwnStep DEF Stages, Serving
  <1> QED BY <1>2, <1>3, <1>4 DEF CheckAuth

\* The users were counted under the lease, so the first admin meets nobody.
LEMMA SeedKeeps ==
    ASSUME StartupInv, NEW p \in Procs, seed_admin(p)
    PROVE  StartupInv'
  <1>1. /\ Running(p) /\ running[p].at = "seed"
        /\ running[p] \in Process /\ Holds(p, running[p])
    BY Runs DEF seed_admin, At, Running, StartupInv
  <1>2. db.lease = p /\ db.users = 0
    BY <1>1 DEF Holds, Serving
  <1>3. ASSUME Ends(p, "admin", db), running[p].cfg.admin_username = ""
        PROVE  StartupInv'
    BY <1>1, <1>3, EndKeeps DEF Refused
  <1>4. ASSUME Proceeds(p, "seeded"), UNCHANGED <<db, exits, verdict, past>>
        PROVE  StartupInv'
    BY <1>1, <1>4, OwnStep DEF Stages, Serving
  <1>5. ASSUME db' = [db EXCEPT !.users = 1], Proceeds(p, "seeded"),
               UNCHANGED <<exits, verdict, past>>
        PROVE  StartupInv'
    <2>2. PICK x : x = MovedTo(running[p], "seeded")
      OBVIOUS
    <2>3. x \in Process /\ x.at = "seeded" /\ x.cfg = running[p].cfg /\ x.file = running[p].file
          /\ x.env = running[p].env
      BY <1>1, <2>2, Moved DEF Stages, Serving
    <2>4. running' = [running EXCEPT ![p] = x]
      BY <1>5, <2>2 DEF Proceeds, MovedTo
    <2>5. /\ db' \in Database /\ db'.version = db.version /\ db'.dated = db.dated
          /\ db'.secret = db.secret /\ db'.lease = db.lease
      BY <1>5 DEF StartupInv, StartupTypeOK, Database
    <2>7. Holds(p, x)'
      BY <1>1, <1>2, <2>3, <2>5 DEF Holds, Running
    <2>8. VersionIsTrue' /\ Sealed' /\ Exited' /\ Judged'
      BY <1>5, <2>5 DEF StartupInv, VersionIsTrue, Sealed, PlainIsAsked, Exited, SeedsOnce,
         SameKeyReopens, Judged
    <2> QED BY <1>2, <1>5, <2>3, <2>4, <2>5, <2>7, <2>8, StartupStepKeeps DEF StartupInv, StartupTypeOK
  <1>6. ~(db.users > 0)
    BY <1>2
  <1>7. \/ Ends(p, "admin", db) /\ running[p].cfg.admin_username = ""
        \/ Proceeds(p, "seeded") /\ UNCHANGED <<db, exits, verdict, past>>
        \/ db' = [db EXCEPT !.users = 1] /\ Proceeds(p, "seeded") /\ UNCHANGED <<exits, verdict, past>>
    BY <1>6 DEF seed_admin
  <1> QED BY <1>3, <1>4, <1>5, <1>7

\* A server that is up has told the store its key, and may write in plaintext.
LEMMA ListenKeeps ==
    ASSUME StartupInv, NEW p \in Procs, Listen(p)
    PROVE  StartupInv'
  <1>1. /\ Running(p) /\ running[p].at = "seeded"
        /\ running[p] \in Process /\ Holds(p, running[p])
    BY Runs DEF Listen, At, Running, StartupInv
  <1>2. ASSUME Ends(p, "listen", db), running[p].cfg.listen # "addr"
        PROVE  StartupInv'
    BY <1>1, <1>2, EndKeeps DEF Refused
  <1>3. ASSUME Ends(p, "apply", db), running[p].cfg.api_config, ~server_apply_auth_configured(p)
        PROVE  StartupInv'
    BY <1>1, <1>3, EndKeeps DEF Refused, server_apply_auth_configured
  <1>4. ASSUME Proceeds(p, "up"), UNCHANGED <<db, exits, verdict>>,
               past' = [past EXCEPT !.keys = @ \cup {from_env(running[p].env)},
                          !.plain = @ \/ plaintext_ledger_allowed(running[p].env)]
        PROVE  StartupInv'
    <2>1. PICK x : x = MovedTo(running[p], "up")
      OBVIOUS
    <2>2. x \in Process /\ x.at = "up" /\ x.cfg = running[p].cfg /\ x.file = running[p].file
          /\ x.env = running[p].env /\ x.env \in Envs
      BY <1>1, <2>1, Moved DEF Stages, Serving, Process
    <2>3. running' = [running EXCEPT ![p] = x]
      BY <1>4, <2>1 DEF Proceeds, MovedTo
    <2>4. from_env(running[p].env) \in Keys /\ plaintext_ledger_allowed(running[p].env) \in BOOLEAN
      BY <2>2 DEF Keys, plaintext_ledger_allowed
    <2>5. /\ past' \in History /\ past'.skipped = past.skipped
          /\ past'.keys = past.keys \cup {from_env(running[p].env)}
          /\ past'.plain = (past.plain \/ plaintext_ledger_allowed(running[p].env))
      BY <1>4, <2>4 DEF StartupInv, StartupTypeOK, History
    <2>6. Holds(p, x)'
      BY <1>1, <1>4, <2>2, <2>5 DEF Holds, Serving, Running
    <2>7. VersionIsTrue' /\ Sealed' /\ Judged'
      BY <1>4, <2>5 DEF StartupInv, VersionIsTrue, Sealed, PlainIsAsked, Judged
    <2>8. Exited'
      BY <1>4, <2>5 DEF StartupInv, Exited, SeedsOnce, SameKeyReopens
    <2> QED BY <1>4, <2>2, <2>3, <2>5, <2>6, <2>7, <2>8, StartupStepKeeps DEF StartupInv, StartupTypeOK
  <1> QED BY <1>2, <1>3, <1>4 DEF Listen

\* What a server writes while it is up.
LEMMA WriteKeeps ==
    ASSUME StartupInv, UNCHANGED <<running, exits, verdict>>, db' \in Database, past' \in History,
           past'.keys = past.keys, past'.plain = past.plain, past.skipped => past'.skipped,
           db'.lease = db.lease, db'.users = db.users, VersionIsTrue', Sealed',
           db'.dated => \/ db.dated \/ past'.skipped \/ \A q \in Procs : ~At(q, "stamp_next")
    PROVE  StartupInv'
  <1>1. \A q \in Procs : Holds(q, running[q])'
    <2> TAKE q \in Procs
    <2>1. Holds(q, running[q])
      BY DEF StartupInv
    <2> QED BY <2>1 DEF Holds, At
  <1>2. StartupTypeOK' /\ Exited' /\ Judged'
    BY DEF StartupInv, StartupTypeOK, Exited, SeedsOnce, SameKeyReopens, Judged
  <1> QED BY <1>1, <1>2 DEF StartupInv

LEMMA UpsertKeeps ==
    ASSUME StartupInv, NEW p \in Procs, NEW value \in Savable, upsert_app_secrets(p, value)
    PROVE  StartupInv'
  <1>1. /\ Running(p) /\ running[p].at = "up"
        /\ running[p] \in Process /\ Holds(p, running[p])
    BY Runs DEF upsert_app_secrets, At, Running, StartupInv
  <1>2. PICK key : key = from_env(running[p].env)
    OBVIOUS
  <1>3. key \in Keys /\ key \in past.keys
    BY <1>1, <1>2 DEF Keys, Process, Holds
  <1>4. key = "plain" => past.plain
    BY <1>1, <1>2 DEF upsert_app_secrets, may_seal, Holds
  <1>5. \/ db' = db
        \/ db' = [db EXCEPT !.secret = [value |-> value, by |-> key]]
    BY <1>2 DEF upsert_app_secrets
  <1>6. PICK secret : secret = [value |-> value, by |-> key]
    OBVIOUS
  <1>7. secret \in [value : Savable \cup {""}, by : Keys \cup {"none"}] /\ secret.by = key
    BY <1>3, <1>6
  <1>8. /\ db' \in Database /\ db'.lease = db.lease /\ db'.users = db.users
        /\ db'.dated = db.dated /\ db'.version = db.version
        /\ db'.secret \in {db.secret, secret}
    BY <1>5, <1>6, <1>7 DEF StartupInv, StartupTypeOK, Database
  <1>9. UNCHANGED <<running, exits, verdict, past>>
    BY DEF upsert_app_secrets
  <1>10. VersionIsTrue' /\ Sealed'
    BY <1>3, <1>4, <1>7, <1>8, <1>9 DEF StartupInv, VersionIsTrue, Sealed, PlainIsAsked
  <1> QED BY <1>8, <1>9, <1>10, WriteKeeps DEF StartupInv, StartupTypeOK

LEMMA DeleteKeeps ==
    ASSUME StartupInv, NEW p \in Procs, delete_app_secrets(p)
    PROVE  StartupInv'
  <1>1. PICK secret : secret = [value |-> "", by |-> "none"]
    OBVIOUS
  <1>2. secret \in [value : Savable \cup {""}, by : Keys \cup {"none"}] /\ secret.by = "none"
    BY <1>1
  <1>3. db' = [db EXCEPT !.secret = secret] /\ UNCHANGED <<running, exits, verdict, past>>
    BY <1>1 DEF delete_app_secrets
  <1>4. /\ db' \in Database /\ db'.lease = db.lease /\ db'.users = db.users
        /\ db'.dated = db.dated /\ db'.version = db.version /\ db'.secret = secret
    BY <1>2, <1>3 DEF StartupInv, StartupTypeOK, Database
  <1>5. VersionIsTrue' /\ Sealed'
    BY <1>2, <1>3, <1>4 DEF StartupInv, VersionIsTrue, Sealed, PlainIsAsked
  <1> QED BY <1>3, <1>4, <1>5, WriteKeeps DEF StartupInv, StartupTypeOK

\* An older release writes dates beside a newer one: that is remembered.
LEMMA RecordDatesKeeps ==
    ASSUME StartupInv, NEW p \in Procs, RecordDates(p)
    PROVE  StartupInv'
  <1>2. db' = [db EXCEPT !.dated = TRUE] /\ UNCHANGED <<running, exits, verdict>>
    BY DEF RecordDates
  <1>3. PICK other \in BOOLEAN :
          /\ other <=> db.version > Binary[p] \/ \E q \in Procs : At(q, "stamp_next")
          /\ past' = [past EXCEPT !.skipped = @ \/ other]
    <2>1. PICK other : other = (db.version > Binary[p] \/ \E q \in Procs : At(q, "stamp_next"))
      OBVIOUS
    <2> QED BY <2>1 DEF RecordDates
  <1>4. /\ db' \in Database /\ db'.lease = db.lease /\ db'.users = db.users
        /\ db'.secret = db.secret /\ db'.version = db.version
    BY <1>2 DEF StartupInv, StartupTypeOK, Database
  <1>5. /\ past' \in History /\ past'.keys = past.keys /\ past'.plain = past.plain
        /\ past'.skipped = (past.skipped \/ other)
    BY <1>3 DEF StartupInv, StartupTypeOK, History
  <1>6. db.version = 2 => other
    <2>1. Binary[p] \in Nat /\ Binary[p] < 2
      BY StartupAssumption DEF RecordDates
    <2> QED BY <1>3, <2>1
  <1>7. VersionIsTrue' /\ Sealed'
    BY <1>4, <1>5, <1>6 DEF StartupInv, VersionIsTrue, Sealed, PlainIsAsked
  <1> QED BY <1>2, <1>3, <1>4, <1>5, <1>7, WriteKeeps

----------------------------------------------------------------------------
(* Start-up: the theorems.                                                 *)

(* What the processes know of each other and of the database, the reasons  *)
(* they gave and the last verdict hold, whoever starts, migrates, saves or *)
(* dies.                                                                   *)
THEOREM StartupInvariance == StartupSpec => []StartupInv
  <1>1. StartupInv /\ [StartupNext]_startupVars => StartupInv'
    <2> SUFFICES ASSUME StartupInv, [StartupNext]_startupVars PROVE StartupInv'
      OBVIOUS
    <2>1. CASE UNCHANGED startupVars
      <3>1. UNCHANGED <<running, db, exits, verdict, past>>
        BY <2>1 DEF startupVars
      <3> QED BY <3>1, WriteKeeps DEF StartupInv, StartupTypeOK, VersionIsTrue, Sealed, PlainIsAsked
    <2>2. ASSUME NEW p \in Procs,
                 \/ health(p) \/ run_validate_offline(p) \/ probe_sources(p) \/ Die(p)
          PROVE  StartupInv'
      <3>1. Running(p)
        BY <2>2 DEF health, run_validate_offline, probe_sources, Die, At, Running
      <3>2. CASE health(p) \/ Die(p)
        <4>1. Ends(p, "ok", db) \/ Ends(p, "died", db)
          BY <3>2 DEF health, Die
        <4> QED BY <3>1, <4>1, EndKeeps DEF Refused
      <3>3. CASE run_validate_offline(p) \/ probe_sources(p)
        <4>1. PICK strict \in BOOLEAN, probes \in BOOLEAN : Reports(p, strict, probes)
          BY <3>3 DEF run_validate_offline, probe_sources
        <4> QED BY <3>1, <4>1, ReportKeeps
      <3> QED BY <2>2, <3>2, <3>3
    <2>3. ASSUME NEW p \in Procs,
                 \/ \E cmd \in Commands, file \in Files, env \in Envs : Start(p, cmd, file, env)
                 \/ \E value \in Savable : upsert_app_secrets(p, value)
                 \/ delete_app_secrets(p) \/ RecordDates(p)
          PROVE  StartupInv'
      BY <2>3, BeginKeeps, UpsertKeeps, DeleteKeeps, RecordDatesKeeps
    <2>4. ASSUME NEW p \in Procs,
                 \/ Connect(p) \/ Lock(p) \/ ReadVersion(p) \/ StampBaseline(p) \/ RunMigration(p)
                 \/ StampNext(p) \/ load_app_secrets_into_vault(p)
                 \/ Lease(p) \/ CheckAuth(p) \/ seed_admin(p) \/ Listen(p)
          PROVE  StartupInv'
      BY <2>4, ConnectKeeps, LockKeeps, ReadVersionKeeps, StampBaselineKeeps, RunMigrationKeeps,
         StampNextKeeps, LoadKeeps, LeaseKeeps, CheckAuthKeeps, SeedKeeps, ListenKeeps
    <2> QED BY <2>1, <2>2, <2>3, <2>4 DEF StartupNext
  <1> QED BY <1>1, InitStartup, PTL DEF StartupSpec

(* A database is what its version says, opens under the key that sealed it,*)
(* holds plaintext only if a server may, and gets one first admin          *)
(* (migrate.rs, crypto, serve).                                            *)
THEOREM StoreAlwaysTrue == StartupSpec => []StoreIsTrue
  <1>1. StartupInv => StoreIsTrue
    BY DEF StartupInv, StoreIsTrue, Sealed, Exited
  <1> QED BY <1>1, StartupInvariance, PTL

\* A refusal over settings that validation accepted is one of its gaps.
LEMMA RefusalIsGap ==
  ASSUME NEW why \in {"url", "tls", "key", "auth", "listen", "apply", "admin"},
         NEW cfg, NEW env,
         Refused(why, cfg, env), validate_database(cfg, env), validate_api(cfg, env),
         Present(EnvValue(env, "session_secret")) => Present(cfg.session_secret),
         Present(EnvValue(env, "postgres_url")) => Present(cfg.postgres_url)
  PROVE  ValidationGap(cfg, env)
  <1>1. cfg.listen = "addr" /\ (cfg.require_auth => HasCredential(cfg, env))
    BY DEF validate_api
  <1>2. Present(cfg.postgres_url)
    BY DEF validate_database
  <1>3. ASSUME HasCredential(cfg, env), ~server_auth_configured(cfg)
        PROVE  ValidationGap(cfg, env)
    BY <1>3 DEF HasCredential, server_auth_configured, local_auth_configured, Present,
       ValidationGap
  <1>4. CASE why \in {"url", "tls", "key"}
    BY <1>2, <1>4 DEF Refused, ValidationGap
  <1>5. CASE why = "auth"
    BY <1>1, <1>3, <1>5 DEF Refused
  <1>6. CASE why = "listen"
    BY <1>1, <1>6 DEF Refused
  <1>7. CASE why = "apply"
    <2>1. cfg.api_config /\ ~server_auth_configured(cfg)
      BY <1>7 DEF Refused
    <2> QED BY <1>1, <1>3, <2>1 DEF ValidationGap
  <1>8. CASE why = "admin"
    BY <1>8 DEF Refused, ValidationGap
  <1> QED BY <1>4, <1>5, <1>6, <1>7, <1>8

(* What validation accepted, serve does not refuse over its settings, but  *)
(* for the gaps that ValidationGap names (validate.rs, PostgresStore::open, *)
(* Runtime::serve).                                                        *)
THEOREM ValidatedAlwaysStarts == StartupSpec => []ValidatedStarts
  <1>1. StartupInv => ValidatedStarts
    <2> SUFFICES ASSUME StartupInv, verdict.valid,
                        exits.why \in {"url", "tls", "key", "auth", "listen", "apply", "admin"},
                        verdict.file = exits.file, verdict.env = exits.env
                 PROVE  ValidationGap(apply_env_overrides(exits.file, exits.env), exits.env)
      BY DEF ValidatedStarts, OverSettings
    <2> DEFINE cfg == apply_env_overrides(exits.file, exits.env)
    <2>1. /\ Refused(exits.why, cfg, exits.env) /\ exits.file \in Files
          /\ validate_database(cfg, exits.env) /\ validate_api(cfg, exits.env)
      BY DEF StartupInv, Exited, Judged
    <2>2. Present(EnvValue(exits.env, "session_secret")) => Present(cfg.session_secret)
      BY <2>1, StartupAssumption DEF EnvValue, Present, apply_env_overrides, Accepted
    <2>3. Present(EnvValue(exits.env, "postgres_url")) => Present(cfg.postgres_url)
      BY <2>1, StartupAssumption DEF EnvValue, Present, apply_env_overrides, Accepted
    <2> HIDE DEF cfg
    <2>4. ValidationGap(cfg, exits.env)
      BY <2>1, <2>2, <2>3, RefusalIsGap
    <2> QED BY <2>4 DEF cfg
  <1> QED BY <1>1, StartupInvariance, PTL
==============================================================================
