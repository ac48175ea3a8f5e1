----------------------------- MODULE Meldevorgang -----------------------------
(***************************************************************************)
(* The reports of an event from the portal                                 *)
(* (apps/web/src/server/tcms/portal/meldung.ts and meldevorgang.ts): one   *)
(* form's idempotency key of one contact.  Requests of that contact submit *)
(* the form, again and in parallel, or clear up what is open; each has one *)
(* attachment to store, or none.  A Vorgang is a row of tcms_portal_report *)
(* from its insertion on; the key is unique, so that at most one exists.   *)
(*                                                                         *)
(* The Tax-CMS, the messages under way to it, leases and ages are          *)
(* environment.  Every statement of a transaction that another one can     *)
(* come in between is a step.                                              *)
(***************************************************************************)
EXTENDS Integers, FiniteSets

CONSTANTS Anfragen,      \* requests of the contact, each made once
          MaxVorgaenge,  \* bound of rows inserted under the key
          MaxAbstuerze   \* bound of deaths and failed transactions

ASSUME AnfragenAssumption == 0 \notin Anfragen
ASSUME BoundsAssumption == MaxVorgaenge \in Nat \ {0} /\ MaxAbstuerze \in Nat

Vorgaenge == 1..MaxVorgaenge

VARIABLES zeile,      \* tcms_portal_report
          alter,      \* time since a Vorgang was sent: below 23 h, below
                      \* 23 h + 10 min, more
          anlage,     \* tcms_document_reference of a request's attachment
          anfrage,
          post,       \* a request's message or the answer to it
          inhalt,     \* attachments in what a Vorgang sent
          kennt,      \* Vorgang whose report the Tax-CMS keeps under the key
          ereignisse, \* events the Tax-CMS made of a Vorgang
          kanzlei,    \* a member of staff who releases an attachment
          begonnen,   \* Vorgaenge begun
          frueh,      \* Vorgaenge whose row went within 23 h + 10 min although
                      \* their outcome was open
          abstuerze

dienst == <<inhalt, kennt, ereignisse>>
spur   == <<begonnen, frueh>>
vars   == <<zeile, alter, anlage, anfrage, post, dienst, kanzlei, spur, abstuerze>>

Keine == [v |-> 0, gesendet |-> FALSE, token |-> 0, lease |-> FALSE]

OhneAnlage == [stand |-> "keine", ereignis |-> 0]

(* v: the Vorgang; mit: a file is attached; erste: this is the call that    *)
(* the first sending makes; ereignis: the event of an acceptance            *)
Ruht == [pc |-> "aus", v |-> 0, mit |-> FALSE, erste |-> FALSE, ausgang |-> "keiner",
         ereignis |-> 0]

Frei == [pc |-> "ruht", r |-> 0]

Init ==
  /\ zeile = Keine
  /\ alter = [v \in Vorgaenge |-> "ungesendet"]
  /\ anlage = [r \in Anfragen |-> OhneAnlage]
  /\ anfrage = [r \in Anfragen |-> Ruht]
  /\ post = [r \in Anfragen |-> "keine"]
  /\ inhalt = [v \in Vorgaenge |-> {}]
  /\ kennt = 0
  /\ ereignisse = [v \in Vorgaenge |-> 0]
  /\ kanzlei = Frei
  /\ begonnen = 0
  /\ frueh = {}
  /\ abstuerze = 0

-----------------------------------------------------------------------------
\* Variants of definitions, each with a bug that code could have, stand before
\* them, are named after them and take no part in the specification.

LeaseFrei == ~ zeile.lease

imFenster(v) == alter[v] = "fenster"

(* anlagenFilter: attachments under the key, neither released nor assigned  *)
Offene == {r \in Anfragen : anlage[r].stand = "gebunden"}

Setze(S, stand, e) ==
  anlage' = [r \in Anfragen |-> IF r \in S THEN [stand |-> stand, ereignis |-> e] ELSE anlage[r]]

Gestoert == abstuerze < MaxAbstuerze /\ abstuerze' = abstuerze + 1

Weiter(r, pc) == anfrage' = [anfrage EXCEPT ![r].pc = pc]

Endet(r) == anfrage' = [anfrage EXCEPT ![r] = [Ruht EXCEPT !.pc = "ende", !.v = anfrage[r].v]]

(* The row a request began or claimed; ids of rows are never used again     *)
Eigen(r) == zeile.v = anfrage[r].v /\ zeile.token = r

-----------------------------------------------------------------------------
(* meldevorgangBeanspruchen: the first read chooses the way.  Outside the   *)
(* window the answer is "abgelaufen".                                       *)
Weg == CASE zeile.v = 0                             -> "zaehlt"
         [] zeile.v # 0 /\ ~ zeile.gesendet         -> "loestAuf"
         [] zeile.gesendet /\ imFenster(zeile.v)    -> "wiederholt"
         [] OTHER                                   -> "ende"

Sende(r) ==
  /\ anfrage[r].pc = "aus"
  /\ \E mit \in BOOLEAN :
       anfrage' = [anfrage EXCEPT ![r].pc = Weg, ![r].v = zeile.v, ![r].mit = mit]
  /\ UNCHANGED <<zeile, alter, anlage, post, dienst, kanzlei, spur, abstuerze>>

(* faelligeBeanspruchen: the candidates of a clearing-up                    *)
Klaere(r) ==
  /\ anfrage[r].pc = "aus"
  /\ zeile.v # 0 /\ LeaseFrei
  /\ zeile.gesendet => imFenster(zeile.v)
  /\ anfrage' = [anfrage EXCEPT ![r].pc = IF zeile.gesendet THEN "wiederholt" ELSE "uebernimmt",
                                ![r].v = zeile.v]
  /\ UNCHANGED <<zeile, alter, anlage, post, dienst, kanzlei, spur, abstuerze>>

Beginnt(r) ==
  /\ begonnen < MaxVorgaenge
  /\ begonnen' = begonnen + 1
  /\ zeile' = [v |-> begonnen', gesendet |-> FALSE, token |-> r, lease |-> TRUE]
  /\ anfrage' = [anfrage EXCEPT ![r].pc = "legtAb", ![r].v = begonnen']

(* neuBeginnenTx: the key is used up while attachments of it are open       *)
Zaehle(r) ==
  /\ anfrage[r].pc = "zaehlt"
  /\ Weiter(r, IF Offene = {} THEN "beginnt" ELSE "ende")
  /\ UNCHANGED <<zeile, alter, anlage, post, dienst, kanzlei, spur, abstuerze>>

Beginne(r) ==
  /\ anfrage[r].pc = "beginnt"
  /\ IF zeile.v = 0 THEN Beginnt(r) ELSE Endet(r) /\ UNCHANGED <<zeile, begonnen>>
  /\ UNCHANGED <<alter, anlage, post, dienst, kanzlei, frueh, abstuerze>>

(* A Vorgang never sent is dissolved, its attachments are free, and the     *)
(* request begins anew.                                                     *)
LoeseAuf(r) ==
  /\ anfrage[r].pc = "loestAuf"
  /\ IF zeile.v = anfrage[r].v /\ ~ zeile.gesendet /\ LeaseFrei
     THEN Setze(Offene, "frei", 0) /\ Beginnt(r)
     ELSE Endet(r) /\ UNCHANGED <<zeile, anlage, begonnen>>
  /\ UNCHANGED <<alter, post, dienst, kanzlei, frueh, abstuerze>>

Beanspruchbar(r) == zeile.v = anfrage[r].v /\ LeaseFrei

Beanspruche(r) ==
  zeile' = [zeile EXCEPT !.token = r, !.lease = TRUE]

Wiederhole(r) ==
  /\ anfrage[r].pc = "wiederholt"
  /\ IF Beanspruchbar(r) /\ zeile.gesendet /\ imFenster(zeile.v)
     THEN Beanspruche(r) /\ Weiter(r, "ruft")
     ELSE Endet(r) /\ UNCHANGED zeile
  /\ UNCHANGED <<alter, anlage, post, dienst, kanzlei, spur, abstuerze>>

Uebernimm(r) ==
  /\ anfrage[r].pc = "uebernimmt"
  /\ IF Beanspruchbar(r) /\ ~ zeile.gesendet
     THEN /\ Beanspruche(r)
          /\ anfrage' = [anfrage EXCEPT ![r].pc = "schliesst", ![r].ausgang = "nieGesendet"]
     ELSE Endet(r) /\ UNCHANGED zeile
  /\ UNCHANGED <<alter, anlage, post, dienst, kanzlei, spur, abstuerze>>

-----------------------------------------------------------------------------
(* meldungsAnlagenAblegen: the commit that stores a file binds it, whatever *)
(* became of the Vorgang meanwhile.                                         *)
LegeAb(r) ==
  /\ anfrage[r].pc = "legtAb"
  /\ anfrage[r].mit /\ anlage[r] = OhneAnlage
  /\ Setze({r}, "gebunden", 0)
  /\ UNCHANGED <<zeile, alter, anfrage, post, dienst, kanzlei, spur, abstuerze>>

(* A file is refused, perhaps after another one was bound.                  *)
AblageScheitert(r) ==
  /\ anfrage[r].pc = "legtAb"
  /\ anfrage[r].mit
  /\ anfrage' = [anfrage EXCEPT ![r].pc = "raeumt", ![r].ausgang = "nieGesendet"]
  /\ UNCHANGED <<zeile, alter, anlage, post, dienst, kanzlei, spur, abstuerze>>

(* meldevorgangGesendet: only who still has the row may send.               *)
Gesendet(r) ==
  /\ anfrage[r].pc = "legtAb"
  /\ anfrage[r].mit => anlage[r] # OhneAnlage
  /\ IF Eigen(r) /\ ~ zeile.gesendet
     THEN /\ zeile' = [zeile EXCEPT !.gesendet = TRUE, !.lease = TRUE]
          /\ alter' = [alter EXCEPT ![zeile.v] = "fenster"]
          /\ inhalt' = [inhalt EXCEPT ![zeile.v] = IF anfrage[r].mit THEN {r} ELSE {}]
          /\ anfrage' = [anfrage EXCEPT ![r].pc = "ruft", ![r].erste = TRUE]
     ELSE Weiter(r, "raeumt") /\ UNCHANGED <<zeile, alter, inhalt>>
  /\ UNCHANGED <<anlage, post, kennt, ereignisse, kanzlei, spur, abstuerze>>

(* freigeben: its own attachments by their ids; a failure is logged         *)
Raeume(r) ==
  /\ anfrage[r].pc = "raeumt"
  /\ \/ /\ IF anlage[r].stand \in {"gebunden", "zugeordnet"}
           THEN Setze({r}, "frei", 0) ELSE UNCHANGED anlage
        /\ UNCHANGED abstuerze
     \/ Gestoert /\ UNCHANGED anlage
  /\ Weiter(r, IF anfrage[r].ausgang = "keiner" THEN "ende" ELSE "schliesst")
  /\ UNCHANGED <<zeile, alter, post, dienst, kanzlei, spur>>

-----------------------------------------------------------------------------
(* What an answer means: a rejection settles the first attempt only.        *)
AusgangJederAblehnung(r, a) == IF a = "abweichung" THEN "ungeklaert" ELSE a
Ausgang(r, a) ==
  CASE a = "abweichung"                        -> "ungeklaert"
    [] a = "abgelehnt" /\ ~ anfrage[r].erste   -> "offen"
    [] OTHER                                   -> a

Erfaehrt(r, a) ==
  anfrage' = [anfrage EXCEPT ![r].pc = "schliesst", ![r].ausgang = Ausgang(r, a)]

(* The call leaves, or the open breaker rejects it at once.                 *)
Rufe(r) ==
  /\ anfrage[r].pc = "ruft"
  /\ \/ Weiter(r, "wartet") /\ post' = [post EXCEPT ![r] = "unterwegs"]
     \/ Erfaehrt(r, "abgelehnt") /\ UNCHANGED post
  /\ UNCHANGED <<zeile, alter, anlage, dienst, kanzlei, spur, abstuerze>>

(* The service looks at rights and form first, then at the key; the same    *)
(* content gives the same event.  A request given up hears no answer.       *)
Antwortet(r, a, e) ==
  IF anfrage[r].pc = "wartet"
  THEN post' = [post EXCEPT ![r] = a] /\ anfrage' = [anfrage EXCEPT ![r].ereignis = e]
  ELSE post' = [post EXCEPT ![r] = "keine"] /\ UNCHANGED anfrage

LehntAb(r) == Antwortet(r, "abgelehnt", 0) /\ UNCHANGED dienst

Wiedererkannt(r) ==
  /\ kennt # 0
  /\ IF inhalt[kennt] = inhalt[anfrage[r].v]
     THEN Antwortet(r, "angenommen", kennt) ELSE Antwortet(r, "abweichung", 0)
  /\ UNCHANGED dienst

NimmtAn(r) ==
  /\ kennt = 0
  /\ kennt' = anfrage[r].v
  /\ ereignisse' = [ereignisse EXCEPT ![kennt'] = @ + 1]
  /\ Antwortet(r, "angenommen", kennt')
  /\ UNCHANGED inhalt

Ankunft(r) ==
  /\ post[r] = "unterwegs"
  /\ LehntAb(r) \/ Wiedererkannt(r) \/ NimmtAn(r)
  /\ UNCHANGED <<zeile, alter, anlage, kanzlei, spur, abstuerze>>

Erfahre(r) ==
  /\ anfrage[r].pc = "wartet" /\ post[r] \notin {"unterwegs", "keine"}
  /\ Erfaehrt(r, post[r])
  /\ post' = [post EXCEPT ![r] = "keine"]
  /\ UNCHANGED <<zeile, alter, anlage, dienst, kanzlei, spur, abstuerze>>

(* Time limit, transport or 5xx: the message may still be under way.        *)
Zeitlimit(r) ==
  /\ anfrage[r].pc = "wartet"
  /\ Erfaehrt(r, "offen")
  /\ post' = [post EXCEPT ![r] = IF @ = "unterwegs" THEN @ ELSE "keine"]
  /\ UNCHANGED <<zeile, alter, anlage, dienst, kanzlei, spur, abstuerze>>

Verloren(r) ==
  /\ post[r] = "unterwegs"
  /\ post' = [post EXCEPT ![r] = "keine"]
  /\ UNCHANGED <<zeile, alter, anlage, anfrage, dienst, kanzlei, spur, abstuerze>>

-----------------------------------------------------------------------------
(* meldevorgangAbschliessen: each outcome in the condition of its statement *)
Angenommen(r) ==
  /\ anfrage[r].ausgang = "angenommen"
  /\ IF zeile.v = anfrage[r].v /\ zeile.gesendet
     THEN zeile' = Keine /\ Setze(Offene, "zugeordnet", anfrage[r].ereignis)
     ELSE UNCHANGED <<zeile, anlage>>
  /\ UNCHANGED frueh

Freigegeben(r) ==
  /\ anfrage[r].ausgang \in {"abgelehnt", "nieGesendet"}
  /\ IF Eigen(r) /\ (zeile.gesendet <=> anfrage[r].ausgang = "abgelehnt")
     THEN zeile' = Keine /\ Setze(Offene, "frei", 0)
     ELSE UNCHANGED <<zeile, anlage>>
  /\ UNCHANGED frueh

Entfaellt ==
  /\ zeile' = Keine
  /\ frueh' = IF alter[zeile.v] \in {"fenster", "zu"} THEN frueh \union {zeile.v} ELSE frueh

Ungeklaert(r) ==
  /\ anfrage[r].ausgang = "ungeklaert"
  /\ IF Eigen(r) /\ zeile.gesendet THEN Entfaellt ELSE UNCHANGED <<zeile, frueh>>
  /\ UNCHANGED anlage

OffenMitLease(r) ==
  /\ anfrage[r].ausgang = "offen"
  /\ zeile' = IF Eigen(r) THEN [zeile EXCEPT !.token = 0] ELSE zeile
  /\ UNCHANGED <<anlage, frueh>>
Offen(r) ==
  /\ anfrage[r].ausgang = "offen"
  /\ zeile' = IF Eigen(r) THEN [zeile EXCEPT !.lease = FALSE, !.token = 0] ELSE zeile
  /\ UNCHANGED <<anlage, frueh>>

Schliesse(r) ==
  /\ anfrage[r].pc = "schliesst"
  /\ Angenommen(r) \/ Freigegeben(r) \/ Ungeklaert(r) \/ Offen(r)
  /\ Endet(r)
  /\ UNCHANGED <<alter, post, dienst, kanzlei, begonnen, abstuerze>>

(* The process dies, or a transaction fails, which nachfuehren only logs.   *)
Absturz(r) ==
  /\ anfrage[r].pc \notin {"aus", "ende"}
  /\ Gestoert
  /\ Endet(r)
  /\ post' = [post EXCEPT ![r] = IF @ = "unterwegs" THEN @ ELSE "keine"]
  /\ UNCHANGED <<zeile, alter, anlage, dienst, kanzlei, spur>>

-----------------------------------------------------------------------------
(* sperrtFreigabe: a Vorgang that could still be transmitted                *)
Sperrt == /\ zeile.v # 0
          /\ ~ zeile.gesendet \/ alter[zeile.v] # "spaet" \/ zeile.lease

Fuehrt(v, r) == ereignisse[v] > 0 /\ r \in inhalt[v]

(* ungeklaerteAnlageFreigebenAction: check, ask the Tax-CMS, check again    *)
Pruefe(r) ==
  /\ kanzlei = Frei
  /\ r \in Offene /\ ~ Sperrt
  /\ kanzlei' = [pc |-> "fragt", r |-> r]
  /\ UNCHANGED <<zeile, alter, anlage, anfrage, post, dienst, spur, abstuerze>>

Frage ==
  /\ kanzlei.pc = "fragt"
  /\ kanzlei' = IF \E v \in Vorgaenge : Fuehrt(v, kanzlei.r)
                THEN Frei ELSE [kanzlei EXCEPT !.pc = "gibtFrei"]
  /\ UNCHANGED <<zeile, alter, anlage, anfrage, post, dienst, spur, abstuerze>>

GibFrei ==
  /\ kanzlei.pc = "gibtFrei"
  /\ IF kanzlei.r \in Offene /\ ~ Sperrt
     THEN Setze({kanzlei.r}, "freiKanzlei", 0) ELSE UNCHANGED anlage
  /\ kanzlei' = Frei
  /\ UNCHANGED <<zeile, alter, anfrage, post, dienst, spur, abstuerze>>

(* ungeklaerteAnlageZuordnenAction: what an event bears, it bears for good. *)
Zuordne(r, v) ==
  /\ r \in Offene
  /\ Fuehrt(v, r)
  /\ Setze({r}, "zugeordnet", v)
  /\ UNCHANGED <<zeile, alter, anfrage, post, dienst, kanzlei, spur, abstuerze>>

(* meldevorgaengeBereinigen, in the worker: sent for 23 h, or begun 24 h    *)
(* ago and never sent, whoever has claimed it since.  How long ago a row    *)
(* was begun is not kept: any that was not sent may be old enough.          *)
BereinigbarErledigt == /\ zeile.v # 0
                       /\ zeile.gesendet => ~ imFenster(zeile.v) /\ zeile.token = 0
Bereinigbar == /\ zeile.v # 0
               /\ zeile.gesendet => ~ imFenster(zeile.v)

Bereinige ==
  /\ Bereinigbar
  /\ Entfaellt
  /\ UNCHANGED <<alter, anlage, anfrage, post, dienst, kanzlei, begonnen, abstuerze>>

-----------------------------------------------------------------------------
LeaseEndet ==
  /\ zeile.lease
  /\ zeile' = [zeile EXCEPT !.lease = FALSE]
  /\ UNCHANGED <<alter, anlage, anfrage, post, dienst, kanzlei, spur, abstuerze>>

(* No transaction lasts ten minutes, let alone 23 hours, and no call that   *)
(* was claimed within the window is under way ten minutes after it.         *)
InTransaktion(r) == anfrage[r].pc \in {"zaehlt", "beginnt", "loestAuf", "uebernimmt"}
Uebermittelt(r)  == anfrage[r].pc \in {"wiederholt", "ruft", "wartet"} \/ post[r] = "unterwegs"

Altere(v) ==
  /\ \A r \in Anfragen : ~ InTransaktion(r)
  /\ \/ alter[v] = "fenster" /\ alter' = [alter EXCEPT ![v] = "zu"]
     \/ /\ alter[v] = "zu"
        /\ \A r \in Anfragen : anfrage[r].v = v => ~ Uebermittelt(r)
        /\ alter' = [alter EXCEPT ![v] = "spaet"]
  /\ UNCHANGED <<zeile, anlage, anfrage, post, dienst, kanzlei, spur, abstuerze>>

(* The Tax-CMS keeps a key for 24 h after the acceptance.                   *)
Vergisst ==
  /\ kennt # 0 /\ alter[kennt] = "spaet"
  /\ kennt' = 0
  /\ UNCHANGED <<zeile, alter, anlage, anfrage, post, inhalt, ereignisse, kanzlei, spur, abstuerze>>

-----------------------------------------------------------------------------
Schritt(r) ==
  \/ Zaehle(r) \/ Beginne(r) \/ LoeseAuf(r) \/ Wiederhole(r) \/ Uebernimm(r)
  \/ LegeAb(r) \/ AblageScheitert(r) \/ Gesendet(r) \/ Raeume(r)
  \/ Rufe(r) \/ Erfahre(r) \/ Zeitlimit(r) \/ Schliesse(r)

Kanzlei == Frage \/ GibFrei \/ \E r \in Anfragen : Pruefe(r)

Next == \/ \E r \in Anfragen : \/ Sende(r) \/ Klaere(r) \/ Schritt(r) \/ Absturz(r)
                               \/ Ankunft(r) \/ Verloren(r)
        \/ Kanzlei
        \/ \E r \in Anfragen, v \in Vorgaenge : Zuordne(r, v)
        \/ Bereinige \/ LeaseEndet \/ Vergisst
        \/ \E v \in Vorgaenge : Altere(v)

Spec == Init /\ [][Next]_vars

(* The worker's job comes every minute, time passes, and requests and       *)
(* messages do not last for ever.  Nobody need open the page.               *)
Fairness ==
  /\ \A r \in Anfragen : WF_vars(Schritt(r)) /\ WF_vars(Ankunft(r) \/ Verloren(r))
  /\ WF_vars(Bereinige)
  /\ \A v \in Vorgaenge : WF_vars(Altere(v))

FairSpec == Spec /\ Fairness

-----------------------------------------------------------------------------
(* Ranges; a row that was sent has its time and its content (the CHECK      *)
(* tcms_portal_report_sent_check), and a lease has an owner.                *)
TypeOK ==
  /\ zeile \in [v : Vorgaenge \union {0}, gesendet : BOOLEAN, token : Anfragen \union {0},
                lease : BOOLEAN]
  /\ zeile.v # 0 => (zeile.gesendet <=> alter[zeile.v] # "ungesendet")
  /\ zeile.lease => zeile.token # 0
  /\ alter \in [Vorgaenge -> {"ungesendet", "fenster", "zu", "spaet"}]
  /\ anlage \in [Anfragen -> [stand : {"keine", "gebunden", "zugeordnet", "frei", "freiKanzlei"},
                              ereignis : Vorgaenge \union {0}]]
  /\ \A r \in Anfragen : anlage[r].stand = "zugeordnet" <=> anlage[r].ereignis # 0
  /\ anfrage \in [Anfragen -> [pc : {"aus", "zaehlt", "beginnt", "loestAuf", "wiederholt",
                                     "uebernimmt", "legtAb", "raeumt", "ruft", "wartet",
                                     "schliesst", "ende"},
                               v : Vorgaenge \union {0}, mit : BOOLEAN, erste : BOOLEAN,
                               ausgang : {"keiner", "nieGesendet", "abgelehnt", "ungeklaert",
                                          "offen", "angenommen"},
                               ereignis : Vorgaenge \union {0}]]
  /\ post \in [Anfragen -> {"keine", "unterwegs", "abgelehnt", "abweichung", "angenommen"}]
  /\ kanzlei \in [pc : {"ruht", "fragt", "gibtFrei"}, r : Anfragen \union {0}]

(* However often a report is repeated, by whichever request and whatever    *)
(* answers get lost: the Tax-CMS makes one event of it (meldevorgang.ts,    *)
(* "eine Wiederholung legte dann ein zweites Ereignis an").                 *)
OneEventPerReport == \A v \in Vorgaenge : ereignisse[v] <= 1

(* A document is released by the program only if no event bears it, now or  *)
(* later ("nie freigegeben, denn das Ereignis kann existieren").            *)
ReleasedIsFree ==
  \A r \in Anfragen, v \in Vorgaenge : anlage[r].stand = "frei" => ~ Fuehrt(v, r)

(* An attachment that was sent is assigned to the event that bears it.      *)
AssignedIsBorne ==
  \A r \in Anfragen, v \in Vorgaenge :
    anlage[r].stand = "zugeordnet" /\ r \in inhalt[v] => Fuehrt(anlage[r].ereignis, r)

(* What the staff release is in no event either, except for a report whose  *)
(* row was deleted while a call could still be under way: the block of      *)
(* 23 h + 10 min stands in the row and goes with it.                        *)
StaffReleaseIsFree ==
  \A r \in Anfragen, v \in Vorgaenge :
    anlage[r].stand = "freiKanzlei" /\ Fuehrt(v, r) => v \in frueh

(* Each report makes one event, and the locks of documents follow the       *)
(* events that bear them, whatever is lost, late, repeated or cleared up    *)
(* (meldevorgang.ts, meldung.ts).                                           *)
EventsAndLocksAgree ==
  OneEventPerReport /\ ReleasedIsFree /\ AssignedIsBorne /\ StaffReleaseIsFree

(* What a Vorgang never sent would free is no document of a report that was *)
(* sent: "Unter einem Schlüssel mit noch offenen Anlagen eines früheren     *)
(* Vorgangs beginnt kein neuer" (meldevorgang.ts:65-67).  Two requests keep *)
(* to this; of three, one that counts before and begins after another one   *)
(* breaks it.                                                               *)
UnsentOwnsNothingSent ==
  zeile.v # 0 /\ ~ zeile.gesendet => \A r \in Offene, v \in Vorgaenge : r \notin inhalt[v]

(* Nothing else sets events and locks at odds: they agree for good wherever *)
(* no Vorgang ever begins over attachments that an earlier one has sent     *)
(* (meldevorgang.ts, neuBeginnenTx).                                        *)
DocumentsFollowEvents == []UnsentOwnsNothingSent => []EventsAndLocksAgree

(* The content of a report that was sent is deleted in the end, whether or  *)
(* not its contact ever comes back ("der Inhalt soll nie länger liegen").   *)
ContentGoes ==
  \A v \in Vorgaenge : (zeile.v = v /\ zeile.gesendet) ~> (zeile.v # v)
=============================================================================
