----------------------- MODULE TcmsNachrichtenInvariant -----------------------
(***************************************************************************)
(* The inductive invariant of TcmsNachrichten: what a row, its mail order, *)
(* the Tax-CMS and the runs under way know of one message fits together,   *)
(* and nobody comes back to a message whose row was cleared away.          *)
(***************************************************************************)
EXTENDS TcmsNachrichten

Geschlossen == {"ANGENOMMEN", "GESCHEITERT", "UNZUSTELLBAR"}
Beschuldigt == Unzustellbar \ {"SONSTIGES"}
AmWerk      == {"fuehren", "anlegen", "melden", "vermerken"}

(* TypeOK, and the ranges it leaves to the other parts.                     *)
TypeInv ==
  /\ TypeOK
  /\ DOMAIN zeile = Nachrichten
  /\ eingeplant \in [Nachrichten -> Nat] /\ hinweise \in [Nachrichten -> Nat]
  /\ zugegangen \in SUBSET Nachrichten
  /\ meldungen \in [Nachrichten -> SUBSET Meldungen]
  /\ \A m \in Nachrichten : empfaenger[m] \in Befund(m)
  /\ DOMAIN empfaenger = Nachrichten

(* Run r has message m before it.                                           *)
Betrifft(r, m) ==
  \/ m \in lauf[r].liste
  \/ lauf[r].n = m /\ lauf[r].pc \in AmWerk

Unberuehrt(m) == eingeplant[m] = 0 /\ m \notin zugegangen /\ auftrag[m] = "KEINER"

(* Without a row nothing happened yet, or all is said: then every run that  *)
(* knew the message is over, for rows are cleared away after a month.       *)
OhneZeile(m) ==
  zeile[m] = KeineZeile =>
    /\ hinweise[m] = 0
    /\ cms[m] \notin Meldungen => Unberuehrt(m) /\ meldungen[m] = {}
    /\ cms[m] \in Meldungen =>
         /\ meldungen[m] \subseteq {cms[m]} /\ eingeplant[m] <= 1
         /\ auftrag[m] # "QUEUED"
         /\ \A r \in Laeufe : ~ Betrifft(r, m)

(* A row is open and nothing was reported, or closed for good.              *)
MitZeile(m) ==
  LET z == zeile[m] IN
  z # KeineZeile =>
    /\ hinweise[m] = (IF z.hinweis THEN 1 ELSE 0)
    /\ z.status \in {"ZURUECKGESTELLT", "UNZUSTELLBAR"} => Unberuehrt(m)
    /\ z.status \notin {"ZURUECKGESTELLT", "UNZUSTELLBAR"} => eingeplant[m] = 1
    /\ z.status \in Offen => meldungen[m] = {} /\ cms[m] \notin Meldungen
    /\ z.status \in Geschlossen =>
         /\ meldungen[m] \subseteq {MeldungAus(z)}
         /\ cms[m] \in Meldungen => cms[m] = MeldungAus(z)
         /\ auftrag[m] # "QUEUED"
         /\ MeldungAus(z) \in Beschuldigt => m \notin zugegangen
    /\ z.status = "ANGENOMMEN" => m \in zugegangen
    /\ z.gemeldet => cms[m] = MeldungAus(z)
    /\ z.alt => z.gemeldet \/ z.status = "ZURUECKGESTELLT"
    /\ z.alt /\ z.gemeldet => \A r \in Laeufe : ~ Betrifft(r, m)

(* How the order ended, and what the Tax-CMS holds, is so.                  *)
AuftragStimmt(m) ==
  /\ auftrag[m] = "QUEUED" => zeile[m] # KeineZeile /\ zeile[m].status = "EINGEPLANT"
  /\ auftrag[m] = "PROVIDER_ACCEPTED" => m \in zugegangen
  /\ auftrag[m] \in {"QUEUED", "FAILED", "SKIPPED_ABGELAUFEN", "SKIPPED_INAKTIV",
                     "SKIPPED_FREMD"} => m \notin zugegangen

CmsStimmt(m) ==
  /\ cms[m] = "ZUGESTELLT" => m \in zugegangen
  /\ cms[m] \in Beschuldigt => m \notin zugegangen

NachrichtInv ==
  \A m \in Nachrichten :
    OhneZeile(m) /\ MitZeile(m) /\ AuftragStimmt(m) /\ CmsStimmt(m)

(* A run reports what its message's row says; the row cannot change then.   *)
LaufStimmt(r) ==
  LET l == lauf[r]
      z == zeile[l.n]
  IN /\ l.pc = "ruht" => l = Ruht
     /\ l.pc \in AmWerk => l.n \in Nachrichten
     /\ l.pc = "melden" => z.status \in Geschlossen /\ l.meldung = MeldungAus(z)
     /\ l.pc = "vermerken" => z.status \in Geschlossen /\ cms[l.n] = MeldungAus(z)

LaufInv == \A r \in Laeufe : LaufStimmt(r)

ZustellungInv == TypeInv /\ NachrichtInv /\ LaufInv
===============================================================================
