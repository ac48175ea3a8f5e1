--------------------------- MODULE TcmsNachrichten ---------------------------
(***************************************************************************)
(* The delivery of the messages of the Tax-CMS for one tenant              *)
(* (apps/worker/src/jobs/tcms-nachrichten.ts): a run takes the lease of    *)
(* the system actor, fetches the oldest open messages, plans each one in a *)
(* transaction (a mail order for a client contact, a notice for a member   *)
(* of staff) and reports to the Tax-CMS what became of it, after the       *)
(* commit; then it follows up the rows that are not reported yet.          *)
(*                                                                         *)
(* Messages are numbered by age.  The Tax-CMS, the order's way through the *)
(* mail outbox and the data the recipient is checked against are           *)
(* environment.  Reports are named by what they say.                       *)
(***************************************************************************)
EXTENDS Integers, FiniteSets

CONSTANTS Laeufe,        \* runs that may overlap
          Kontakt,       \* messages to client contacts
          Kanzlei,       \* messages to members of staff
          Limit,         \* messages of one fetch (50)
          MaxStoerungen, \* bound of failed calls, lost answers, crashes and
                         \* leases that a live run lets expire
          MaxAenderungen \* bound of changes to a recipient

Nachrichten == Kontakt \union Kanzlei

ASSUME NachrichtenAssumption == Nachrichten \subseteq Nat /\ Kontakt \intersect Kanzlei = {}
ASSUME LimitAssumption == Limit \in Nat \ {0}
ASSUME BoundsAssumption == {MaxStoerungen, MaxAenderungen} \subseteq Nat

VARIABLES cms,           \* the Tax-CMS: a message is open, discarded or reported
          empfaenger,    \* what the check of the recipient says
          abgelaufen,    \* messages whose window is over
          zeile,         \* tcms_nachricht_zustellung
          auftrag,       \* the mail order of a row
          lease,         \* tcms_systemakteur
          lauf,
          eingeplant,    \* times a mail or a notice was planned
          hinweise,      \* notices to the admins for the present row
          zugegangen,    \* mails the provider took, notices made
          meldungen,     \* reports sent, whatever became of them
          stoerungen, aenderungen

umwelt == <<empfaenger, abgelaufen>>
zaehler == <<stoerungen, aenderungen>>
spur    == <<eingeplant, hinweise>>
vars    == <<cms, umwelt, zeile, auftrag, lease, lauf, spur, zugegangen, meldungen, zaehler>>

(* TCMS_MELDEGRUND, one reason of each kind *)
Meldegrund ==
  [ABGELAUFEN |-> "ABGELAUFEN",
   KONTAKT_INAKTIV |-> "KEIN_PORTALZUGANG", PERSON_INAKTIV |-> "EMPFAENGER_UNGUELTIG",
   VERSAND_GESCHEITERT |-> "SONSTIGES", VERSAND_UNKLAR |-> "SONSTIGES",
   VERSAND_VERWORFEN |-> "SONSTIGES", AUFTRAG_FEHLT |-> "SONSTIGES"]

Unzustellbar == {Meldegrund[g] : g \in DOMAIN Meldegrund}
Meldungen    == Unzustellbar \union {"ZUGESTELLT"}

(* ABSCHLUSS_JE_STATUS and VERWORFEN_GRUND: the reason an order in a final  *)
(* state gives its row; an order that was discarded bears the outbox's note.*)
Abschluss ==
  [FAILED |-> "VERSAND_GESCHEITERT", UNKNOWN |-> "VERSAND_UNKLAR",
   SKIPPED_ABGELAUFEN |-> "ABGELAUFEN", SKIPPED_INAKTIV |-> "KONTAKT_INAKTIV",
   SKIPPED_FREMD |-> "VERSAND_VERWORFEN", KEINER |-> "AUFTRAG_FEHLT"]

Befund(m) == {"OK", IF m \in Kontakt THEN "KONTAKT_INAKTIV" ELSE "PERSON_INAKTIV"}

KeineZeile == [status |-> "FEHLT"]
KeineMeldung == "KEINE"
Niemand == "niemand"
Offen   == {"ZURUECKGESTELLT", "EINGEPLANT"}

(* frist: 7 days since erstmals_am; alt: 30 days since gemeldet_am or, put  *)
(* off, since geprueft_am                                                   *)
NeueZeile == [status |-> "ZURUECKGESTELLT", grund |-> "OHNE", frist |-> FALSE,
              hinweis |-> FALSE, gemeldet |-> FALSE, alt |-> FALSE]

Ruht == [pc |-> "ruht", abgerufen |-> FALSE, liste |-> {}, gesehen |-> {},
         n |-> 0, meldung |-> KeineMeldung]

Init ==
  /\ cms = [m \in Nachrichten |-> "OFFEN"]
  /\ empfaenger \in [Nachrichten -> UNION {Befund(m) : m \in Nachrichten}]
  /\ \A m \in Nachrichten : empfaenger[m] \in Befund(m)
  /\ abgelaufen = {}
  /\ zeile = [m \in Nachrichten |-> KeineZeile]
  /\ auftrag = [m \in Nachrichten |-> "KEINER"]
  /\ lease = [halter |-> Niemand, gueltig |-> FALSE]
  /\ lauf = [r \in Laeufe |-> Ruht]
  /\ eingeplant = [m \in Nachrichten |-> 0]
  /\ hinweise = [m \in Nachrichten |-> 0]
  /\ zugegangen = {}
  /\ meldungen = [m \in Nachrichten |-> {}]
  /\ stoerungen = 0 /\ aenderungen = 0

Aelteste(S) == {m \in S : Cardinality({k \in S : k < m}) < Limit}

Gestoert == stoerungen < MaxStoerungen /\ stoerungen' = stoerungen + 1

-----------------------------------------------------------------------------
\* Variants of definitions, each with a bug that code could have, stand before
\* them, are named after them and take no part in the specification.

(* The lease.  bestaetigen also extends it, freigeben clears one's own.     *)
Beanspruche(r) ==
  /\ lauf[r].pc = "ruht"
  /\ ~ lease.gueltig
  /\ lease' = [halter |-> r, gueltig |-> TRUE]
  /\ lauf' = [lauf EXCEPT ![r].pc = "abruf"]
  /\ UNCHANGED <<cms, umwelt, zeile, auftrag, spur, zugegangen, meldungen, zaehler>>

EigenerLease(r) == lease = [halter |-> r, gueltig |-> TRUE]

Freigeben(r) ==
  /\ lauf[r].pc = "freigeben"
  /\ lease' = IF lease.halter = r THEN [halter |-> Niemand, gueltig |-> FALSE] ELSE lease
  /\ lauf' = [lauf EXCEPT ![r] = Ruht]
  /\ UNCHANGED <<cms, umwelt, zeile, auftrag, spur, zugegangen, meldungen, zaehler>>

(* The holder stalls for two minutes, or is dead *)
LeaseLaeuftAb ==
  /\ lease.gueltig
  /\ lease' = [lease EXCEPT !.gueltig = FALSE]
  /\ IF lauf[lease.halter].pc = "ruht" THEN UNCHANGED stoerungen ELSE Gestoert
  /\ UNCHANGED <<cms, umwelt, zeile, auftrag, lauf, spur, zugegangen, meldungen, aenderungen>>

-----------------------------------------------------------------------------
(* planeAbgerufeneEin: the fetch; the Tax-CMS reserves nothing.             *)
Abrufen(r) ==
  /\ lauf[r].pc = "abruf"
  /\ lauf' = [lauf EXCEPT ![r].pc = "naechste", ![r].abgerufen = TRUE,
                          ![r].liste = Aelteste({m \in Nachrichten : cms[m] = "OFFEN"})]
  /\ UNCHANGED <<cms, umwelt, zeile, auftrag, lease, spur, zugegangen, meldungen, zaehler>>

(* An error of the fetch, or one between the messages that nothing catches  *)
(* (the lease, the mark of a report), ends the run; the lease is given back.*)
LaufScheitert(r) ==
  /\ lauf[r].pc \in {"abruf", "naechste", "vermerken"}
  /\ Gestoert
  /\ lauf' = [lauf EXCEPT ![r].pc = "freigeben"]
  /\ UNCHANGED <<cms, umwelt, zeile, auftrag, lease, spur, zugegangen, meldungen, aenderungen>>

Bestaetigen(r) ==
  /\ lauf[r].pc = "naechste"
  /\ \E m \in lauf[r].liste :
       /\ \A k \in lauf[r].liste : m <= k
       /\ lauf' = IF EigenerLease(r)
                  THEN [lauf EXCEPT ![r].pc = "fuehren", ![r].n = m, ![r].liste = @ \ {m}]
                  ELSE [lauf EXCEPT ![r].pc = "freigeben"]
  /\ UNCHANGED <<cms, umwelt, zeile, auftrag, lease, spur, zugegangen, meldungen, zaehler>>

(* fuehreOffeneNach: rows that are planned or closed, and not reported      *)
Nachzufuehren(r) == {m \in Nachrichten : /\ zeile[m] # KeineZeile
                                         /\ ~ zeile[m].gemeldet
                                         /\ zeile[m].status # "ZURUECKGESTELLT"
                                         /\ m \notin lauf[r].gesehen}

FuehreOffeneNach(r) ==
  /\ lauf[r].pc = "naechste" /\ lauf[r].liste = {} /\ lauf[r].abgerufen
  /\ lauf' = [lauf EXCEPT ![r].abgerufen = FALSE, ![r].gesehen = {},
                          ![r].liste = Aelteste(Nachzufuehren(r))]
  /\ UNCHANGED <<cms, umwelt, zeile, auftrag, lease, spur, zugegangen, meldungen, zaehler>>

(* bereinige *)
VeraltetNachAbschluss(m) == zeile[m].status \in {"ANGENOMMEN", "GESCHEITERT", "UNZUSTELLBAR"}
Veraltet(m) == /\ zeile[m] # KeineZeile
               /\ zeile[m].alt
               /\ zeile[m].gemeldet \/ zeile[m].status = "ZURUECKGESTELLT"

Bereinige(r) ==
  /\ lauf[r].pc = "naechste" /\ lauf[r].liste = {} /\ ~ lauf[r].abgerufen
  /\ zeile' = [m \in Nachrichten |-> IF Veraltet(m) THEN KeineZeile ELSE zeile[m]]
  /\ hinweise' = [m \in Nachrichten |-> IF Veraltet(m) THEN 0 ELSE hinweise[m]]
  /\ lauf' = [lauf EXCEPT ![r].pc = "freigeben"]
  /\ UNCHANGED <<cms, umwelt, auftrag, lease, eingeplant, zugegangen, meldungen, zaehler>>

-----------------------------------------------------------------------------
(* One message in one transaction.                                          *)

(* auftragsAbschluss *)
NimmtAuf(a) == a \in {"PROVIDER_ACCEPTED"} \union DOMAIN Abschluss

MitAbschlussMitGrund(z, a) ==
  [z EXCEPT !.status = IF a = "PROVIDER_ACCEPTED" THEN "ANGENOMMEN" ELSE "GESCHEITERT",
            !.grund = IF a = "PROVIDER_ACCEPTED" THEN "VERSAND_UNKLAR" ELSE Abschluss[a]]
MitAbschluss(z, a) ==
  IF a = "PROVIDER_ACCEPTED" THEN [z EXCEPT !.status = "ANGENOMMEN"]
  ELSE [z EXCEPT !.status = "GESCHEITERT", !.grund = Abschluss[a]]

(* meldungAus *)
MeldungAus(z) ==
  CASE z.status = "ANGENOMMEN" -> "ZUGESTELLT"
    [] z.status \in {"GESCHEITERT", "UNZUSTELLBAR"} -> Meldegrund[z.grund]
    [] OTHER -> KeineMeldung

(* The run goes on with row z of its message, and has seen it or not.       *)
WeiterMit(r, meldung, gesehen) ==
  lauf' = [lauf EXCEPT ![r].pc = IF meldung = KeineMeldung THEN "naechste" ELSE "melden",
                       ![r].meldung = meldung,
                       ![r].n = IF meldung = KeineMeldung THEN 0 ELSE @,
                       ![r].gesehen = IF gesehen /\ lauf[r].abgerufen
                                      THEN @ \union {lauf[r].n} ELSE @]

(* uebernimmAuftrag: a planned row takes over how its order ended, once.    *)
UebernehmbarAuchGescheitert(z) == z.status \in {"EINGEPLANT", "GESCHEITERT"}
Uebernehmbar(z) == z.status = "EINGEPLANT"

UebernimmAuftrag(r) ==
  LET m == lauf[r].n
      z == MitAbschluss(zeile[m], auftrag[m])
  IN /\ lauf[r].pc = "fuehren" /\ Uebernehmbar(zeile[m])
     /\ IF NimmtAuf(auftrag[m])
        THEN zeile' = [zeile EXCEPT ![m] = z] /\ WeiterMit(r, MeldungAus(z), TRUE)
        ELSE UNCHANGED zeile /\ WeiterMit(r, KeineMeldung, FALSE)
     /\ UNCHANGED <<cms, umwelt, auftrag, lease, spur, zugegangen, meldungen, zaehler>>

(* A closed row says again what it said first; the follow-up has nothing to *)
(* say of one that is put off or gone.                                      *)
Bereits(r) ==
  LET z == zeile[lauf[r].n] IN
  /\ lauf[r].pc = "fuehren" /\ ~ Uebernehmbar(z)
  /\ lauf[r].abgerufen => z.status \notin {"FEHLT", "ZURUECKGESTELLT"}
  /\ WeiterMit(r, MeldungAus(z), TRUE)
  /\ UNCHANGED <<cms, umwelt, zeile, auftrag, lease, spur, zugegangen, meldungen, zaehler>>

(* pruefeEmpfaenger, after the window *)
Pruefung(m) == IF m \in abgelaufen THEN "ABGELAUFEN" ELSE empfaenger[m]

(* planeZustellungEin: the mail or the notice in the row's transaction      *)
PlaneZustellungEin(m, z) ==
  /\ Pruefung(m) = "OK"
  /\ zeile' = [zeile EXCEPT ![m] =
       [z EXCEPT !.status = IF m \in Kontakt THEN "EINGEPLANT" ELSE "ANGENOMMEN",
                 !.grund = "OHNE", !.alt = FALSE]]
  /\ auftrag' = [auftrag EXCEPT ![m] = IF m \in Kontakt THEN "QUEUED" ELSE @]
  /\ zugegangen' = zugegangen \union ({m} \ Kontakt)
  /\ eingeplant' = [eingeplant EXCEPT ![m] = @ + 1]
  /\ UNCHANGED hinweise

(* stelleZurueck *)
AbschliessenNurAbgelaufen(m, z) == Pruefung(m) = "ABGELAUFEN"
Abschliessen(m, z) == Pruefung(m) = "ABGELAUFEN" \/ z.frist

HinweisFaellig(z) == ~ z.hinweis

StelleZurueck(m, z) ==
  /\ Pruefung(m) # "OK"
  /\ zeile' = [zeile EXCEPT ![m] =
       [z EXCEPT !.status = IF Abschliessen(m, z) THEN "UNZUSTELLBAR" ELSE "ZURUECKGESTELLT",
                 !.grund = Pruefung(m), !.alt = FALSE, !.hinweis = TRUE]]
  /\ hinweise' = [hinweise EXCEPT ![m] = IF HinweisFaellig(z) THEN @ + 1 ELSE @]
  /\ UNCHANGED <<auftrag, zugegangen, eingeplant>>

PruefeUndSchreibe(r, z) ==
  /\ PlaneZustellungEin(lauf[r].n, z) \/ StelleZurueck(lauf[r].n, z)
  /\ WeiterMit(r, MeldungAus(zeile'[lauf[r].n]),
               zeile'[lauf[r].n].status # "ZURUECKGESTELLT")
  /\ UNCHANGED <<cms, umwelt, lease, meldungen, zaehler>>

(* A row that was put off is checked again under its lock.                  *)
PruefeErneut(r) ==
  /\ lauf[r].pc = "fuehren" /\ lauf[r].abgerufen
  /\ zeile[lauf[r].n].status = "ZURUECKGESTELLT"
  /\ PruefeUndSchreibe(r, zeile[lauf[r].n])

(* Where there is no row there is nothing to lock: two runs may both come   *)
(* this far, the insert decides (ON CONFLICT DO NOTHING).                   *)
KeineZeileGefunden(r) ==
  /\ lauf[r].pc = "fuehren" /\ lauf[r].abgerufen
  /\ zeile[lauf[r].n] = KeineZeile
  /\ lauf' = [lauf EXCEPT ![r].pc = "anlegen"]
  /\ UNCHANGED <<cms, umwelt, zeile, auftrag, lease, spur, zugegangen, meldungen, zaehler>>

Konflikt(m) == zeile[m] # KeineZeile

LegeAn(r) ==
  /\ lauf[r].pc = "anlegen" /\ ~ Konflikt(lauf[r].n)
  /\ PruefeUndSchreibe(r, NeueZeile)

Konkurrenz(r) ==
  /\ lauf[r].pc = "anlegen" /\ Konflikt(lauf[r].n)
  /\ WeiterMit(r, KeineMeldung, FALSE)
  /\ UNCHANGED <<cms, umwelt, zeile, auftrag, lease, spur, zugegangen, meldungen, zaehler>>

(* The transaction fails and is rolled back; the run goes on.               *)
EinplanungScheitert(r) ==
  /\ lauf[r].pc \in {"fuehren", "anlegen"}
  /\ Gestoert
  /\ WeiterMit(r, KeineMeldung, FALSE)
  /\ UNCHANGED <<cms, umwelt, zeile, auftrag, lease, spur, zugegangen, meldungen, aenderungen>>

-----------------------------------------------------------------------------
(* melde.  The Tax-CMS takes the first report, also for a message it has    *)
(* discarded; the same again is fine, another one a conflict, which counts  *)
(* as done.                                                                 *)
Angekommen(m, meldung) == IF cms[m] \in Meldungen THEN cms[m] ELSE meldung

Melde(r) ==
  LET m == lauf[r].n IN
  /\ lauf[r].pc = "melden"
  /\ cms' = [cms EXCEPT ![m] = Angekommen(m, lauf[r].meldung)]
  /\ meldungen' = [meldungen EXCEPT ![m] = @ \union {lauf[r].meldung}]
  /\ lauf' = [lauf EXCEPT ![r].pc = "vermerken", ![r].meldung = KeineMeldung]
  /\ UNCHANGED <<umwelt, zeile, auftrag, lease, spur, zugegangen, zaehler>>

(* No answer or an error, before or after the report took effect            *)
NachFehler == "naechste"

MeldeScheitert(r) ==
  LET m == lauf[r].n IN
  /\ lauf[r].pc = "melden"
  /\ Gestoert
  /\ \/ UNCHANGED cms
     \/ cms' = [cms EXCEPT ![m] = Angekommen(m, lauf[r].meldung)]
  /\ meldungen' = [meldungen EXCEPT ![m] = @ \union {lauf[r].meldung}]
  /\ lauf' = [lauf EXCEPT ![r].pc = NachFehler, ![r].meldung = KeineMeldung]
  /\ UNCHANGED <<umwelt, zeile, auftrag, lease, spur, zugegangen, aenderungen>>

Vermerke(r) ==
  LET m == lauf[r].n IN
  /\ lauf[r].pc = "vermerken"
  /\ zeile' = IF zeile[m] = KeineZeile \/ zeile[m].gemeldet \/ zeile[m].status \in Offen
              THEN zeile
              ELSE [zeile EXCEPT ![m].gemeldet = TRUE, ![m].alt = FALSE]
  /\ lauf' = [lauf EXCEPT ![r].pc = "naechste", ![r].n = 0]
  /\ UNCHANGED <<cms, umwelt, auftrag, lease, spur, zugegangen, meldungen, zaehler>>

Absturz(r) ==
  /\ lauf[r].pc # "ruht"
  /\ Gestoert
  /\ lauf' = [lauf EXCEPT ![r] = Ruht]
  /\ UNCHANGED <<cms, umwelt, zeile, auftrag, lease, spur, zugegangen, meldungen, aenderungen>>

-----------------------------------------------------------------------------
(* The environment.  The order runs through the mail outbox; it is never    *)
(* sent again by hand, and an unclear one stays so.                         *)
Ausgaenge(m) ==
  {"PROVIDER_ACCEPTED", "FAILED", "UNKNOWN", "SKIPPED_FREMD"}
    \union {a \in {"SKIPPED_ABGELAUFEN"} : m \in abgelaufen}
    \union {a \in {"SKIPPED_INAKTIV"} : empfaenger[m] = "KONTAKT_INAKTIV"}

Versand(m) ==
  /\ auftrag[m] = "QUEUED"
  /\ \E a \in Ausgaenge(m) :
       /\ auftrag' = [auftrag EXCEPT ![m] = a]
       /\ \/ a # "PROVIDER_ACCEPTED" /\ UNCHANGED zugegangen
          \/ a \in {"PROVIDER_ACCEPTED", "UNKNOWN"} /\ zugegangen' = zugegangen \union {m}
  /\ UNCHANGED <<cms, umwelt, zeile, lease, lauf, spur, meldungen, zaehler>>

EmpfaengerAendert(m) ==
  /\ aenderungen < MaxAenderungen
  /\ aenderungen' = aenderungen + 1
  /\ \E e \in Befund(m) \ {empfaenger[m]} : empfaenger' = [empfaenger EXCEPT ![m] = e]
  /\ UNCHANGED <<cms, abgelaufen, zeile, auftrag, lease, lauf, spur, zugegangen, meldungen, stoerungen>>

(* A newer request replaces the message. *)
Verwirf(m) ==
  /\ cms[m] = "OFFEN" /\ m \in Kontakt
  /\ cms' = [cms EXCEPT ![m] = "VERWORFEN"]
  /\ UNCHANGED <<umwelt, zeile, auftrag, lease, lauf, spur, zugegangen, meldungen, zaehler>>

(* A message to staff has no window. *)
FensterEndet(m) ==
  /\ m \in Kontakt \ abgelaufen
  /\ abgelaufen' = abgelaufen \union {m}
  /\ UNCHANGED <<cms, empfaenger, zeile, auftrag, lease, lauf, spur, zugegangen, meldungen,
                 zaehler>>

(* Seven days after the first failed check; by then the window of a message *)
(* to a contact is over anyhow.                                             *)
FristEndet(m) ==
  /\ m \in Kanzlei /\ zeile[m].status = "ZURUECKGESTELLT"
  /\ ~ zeile[m].frist
  /\ zeile' = [zeile EXCEPT ![m].frist = TRUE]
  /\ UNCHANGED <<cms, umwelt, auftrag, lease, lauf, spur, zugegangen, meldungen, zaehler>>

(* Thirty days go by, or a year, after which the outbox forgets an order    *)
(* that has ended; no run lasts that long.                                  *)
Altert(m) ==
  IF zeile[m] # KeineZeile /\ (zeile[m].gemeldet \/ zeile[m].status = "ZURUECKGESTELLT")
  THEN [zeile[m] EXCEPT !.alt = TRUE, !.frist = @ \/ m \in Kanzlei] ELSE zeile[m]

Monat ==
  /\ \A r \in Laeufe : lauf[r].pc = "ruht"
  /\ abgelaufen' = Kontakt
  /\ zeile' = [m \in Nachrichten |-> Altert(m)]
  /\ \/ UNCHANGED auftrag
     \/ auftrag' = [m \in Nachrichten |-> IF auftrag[m] = "QUEUED" THEN "QUEUED" ELSE "KEINER"]
  /\ UNCHANGED <<cms, empfaenger, lease, lauf, spur, zugegangen, meldungen, zaehler>>

-----------------------------------------------------------------------------
Schritt(r) ==
  \/ Beanspruche(r) \/ Abrufen(r) \/ Bestaetigen(r) \/ UebernimmAuftrag(r) \/ Bereits(r)
  \/ PruefeErneut(r) \/ KeineZeileGefunden(r) \/ LegeAn(r)
  \/ Konkurrenz(r) \/ Melde(r) \/ Vermerke(r) \/ FuehreOffeneNach(r) \/ Bereinige(r)
  \/ Freigeben(r)

Stoerung(r) ==
  LaufScheitert(r) \/ EinplanungScheitert(r) \/ MeldeScheitert(r) \/ Absturz(r)

Umwelt(m) == Versand(m) \/ EmpfaengerAendert(m) \/ Verwirf(m) \/ FensterEndet(m) \/ FristEndet(m)

Next == \/ \E r \in Laeufe : Schritt(r) \/ Stoerung(r)
        \/ \E m \in Nachrichten : Umwelt(m)
        \/ LeaseLaeuftAb \/ Monat

Spec == Init /\ [][Next]_vars

(* The job comes every minute and some run goes on; a lease that nobody     *)
(* extends runs out; the outbox ends every order; days pass.                *)
Fairness ==
  /\ WF_vars(\E r \in Laeufe : Schritt(r))
  /\ WF_vars(LeaseLaeuftAb)
  /\ WF_vars(\E m \in Nachrichten : Versand(m))
  /\ WF_vars(\E m \in Nachrichten : FensterEndet(m) \/ FristEndet(m))

FairSpec == Spec /\ Fairness

-----------------------------------------------------------------------------
Gruende == DOMAIN Meldegrund \union {"OHNE"}
Status  == {"ZURUECKGESTELLT", "EINGEPLANT", "ANGENOMMEN", "GESCHEITERT", "UNZUSTELLBAR"}

(* The CHECK constraints of tcms_nachricht_zustellung and the ranges of the *)
(* rest: a reason stands in a row exactly when it has one to give, what is  *)
(* sent by mail goes to contacts only, and only what is closed is reported. *)
TypeOK ==
  /\ cms \in [Nachrichten -> Meldungen \union {"OFFEN", "VERWORFEN"}]
  /\ \A m \in Nachrichten :
       LET z == zeile[m] IN
       \/ z = KeineZeile
       \/ /\ z \in [status : Status, grund : Gruende, frist : BOOLEAN, hinweis : BOOLEAN,
                    gemeldet : BOOLEAN, alt : BOOLEAN]
          /\ z.status \in {"EINGEPLANT", "ANGENOMMEN"} <=> z.grund = "OHNE"
          /\ z.status \in {"EINGEPLANT", "GESCHEITERT"} => m \in Kontakt
          /\ z.gemeldet => z.status \notin Offen
  /\ auftrag \in [Nachrichten -> DOMAIN Abschluss \union {"QUEUED", "PROVIDER_ACCEPTED"}]
  /\ lease \in [halter : Laeufe \union {Niemand}, gueltig : BOOLEAN]
  /\ lauf \in [Laeufe -> [pc : {"ruht", "abruf", "naechste", "fuehren", "anlegen", "melden",
                                "vermerken", "freigeben"},
                          abgerufen : BOOLEAN, liste : SUBSET Nachrichten,
                          gesehen : SUBSET Nachrichten, n : Nachrichten \union {0},
                          meldung : Meldungen \union {KeineMeldung}]]

(* However many runs take a message over, at any time: one mail order or    *)
(* one notice comes of it (tcms-nachrichten.ts, "nie eine zweite            *)
(* Einplanung"), and for a row that is put off the admins are told once,    *)
(* however often its check is repeated.                                     *)
PlannedOnce == \A m \in Nachrichten : eingeplant[m] <= 1 /\ hinweise[m] <= 1

(* Whatever is repeated after a lost answer, a crash or by another run: the *)
(* Tax-CMS is told one thing of a message ("nie ein anderer Grund"), and it *)
(* is so: delivered means that the provider took the mail or the notice     *)
(* exists, a recipient is blamed, or the window, only for a message that    *)
(* went to nobody, and a row is marked as reported only if the Tax-CMS has  *)
(* what it says.                                                            *)
ReportIsTrue ==
  \A m \in Nachrichten :
    /\ Cardinality(meldungen[m]) <= 1
    /\ cms[m] = "ZUGESTELLT" => m \in zugegangen
    /\ cms[m] \in Unzustellbar \ {"SONSTIGES"} => m \notin zugegangen
    /\ zeile[m] # KeineZeile /\ zeile[m].gemeldet => cms[m] = MeldungAus(zeile[m])

(* No message stays open for good, also not those behind the limit of the   *)
(* fetch, and one that was planned is reported though its order took long,  *)
(* the Tax-CMS no longer lists it or reports got lost.                      *)
Settled(m) == \/ cms[m] \in Meldungen
              \/ cms[m] = "VERWORFEN" /\ eingeplant[m] = 0

EveryMessageSettled == []<>(\A m \in Nachrichten : Settled(m))
=============================================================================
