------------------------ MODULE TcmsNachrichtenProofs ------------------------
(***************************************************************************)
(* Proof that ZustellungInv is inductive, and with it the safety           *)
(* properties of TcmsNachrichten, for any number of messages and runs, any *)
(* limit of a fetch and any number of failures.                            *)
(***************************************************************************)
EXTENDS TcmsNachrichtenInvariant, FiniteSetTheorems, TLAPS

(* Rows, reasons and reports                                                *)

ZeileTyp == [status : Status, grund : Gruende, frist : BOOLEAN, hinweis : BOOLEAN,
             gemeldet : BOOLEAN, alt : BOOLEAN]

ZeileOK(m, z) ==
  \/ z = KeineZeile
  \/ /\ z \in ZeileTyp
     /\ z.status \in {"EINGEPLANT", "ANGENOMMEN"} <=> z.grund = "OHNE"
     /\ z.status \in {"EINGEPLANT", "GESCHEITERT"} => m \in Kontakt
     /\ z.gemeldet => z.status \notin Offen

LaufTyp ==
  [pc : {"ruht", "abruf", "naechste", "fuehren", "anlegen", "melden", "vermerken",
         "freigeben"},
   abgerufen : BOOLEAN, liste : SUBSET Nachrichten, gesehen : SUBSET Nachrichten,
   n : Nachrichten \union {0}, meldung : Meldungen \union {KeineMeldung}]

NachrichtStimmt(m) == OhneZeile(m) /\ MitZeile(m) /\ AuftragStimmt(m) /\ CmsStimmt(m)

LEMMA Gruendliste ==
  /\ DOMAIN Meldegrund = {"ABGELAUFEN", "KONTAKT_INAKTIV", "PERSON_INAKTIV",
                          "VERSAND_GESCHEITERT", "VERSAND_UNKLAR",
                          "VERSAND_VERWORFEN", "AUFTRAG_FEHLT"}
  /\ DOMAIN Abschluss = {"FAILED", "UNKNOWN", "SKIPPED_ABGELAUFEN",
                         "SKIPPED_INAKTIV", "SKIPPED_FREMD", "KEINER"}
  BY DEF Meldegrund, Abschluss

LEMMA Meldungsliste ==
  /\ Unzustellbar = {"ABGELAUFEN", "KEIN_PORTALZUGANG", "EMPFAENGER_UNGUELTIG",
                     "SONSTIGES"}
  /\ Meldungen = {"ABGELAUFEN", "KEIN_PORTALZUGANG", "EMPFAENGER_UNGUELTIG",
                  "SONSTIGES", "ZUGESTELLT"}
  /\ KeineMeldung \notin Meldungen
  /\ \A g \in DOMAIN Meldegrund : Meldegrund[g] \in Unzustellbar
  <1>1. /\ Meldegrund["ABGELAUFEN"] = "ABGELAUFEN"
        /\ Meldegrund["KONTAKT_INAKTIV"] = "KEIN_PORTALZUGANG"
        /\ Meldegrund["PERSON_INAKTIV"] = "EMPFAENGER_UNGUELTIG"
        /\ Meldegrund["VERSAND_GESCHEITERT"] = "SONSTIGES"
        /\ Meldegrund["VERSAND_UNKLAR"] = "SONSTIGES"
        /\ Meldegrund["VERSAND_VERWORFEN"] = "SONSTIGES"
        /\ Meldegrund["AUFTRAG_FEHLT"] = "SONSTIGES"
    BY DEF Meldegrund
  <1>2. Unzustellbar = {"ABGELAUFEN", "KEIN_PORTALZUGANG", "EMPFAENGER_UNGUELTIG",
                        "SONSTIGES"}
    BY <1>1, Gruendliste DEF Unzustellbar
  <1> QED
    BY <1>1, <1>2, Gruendliste DEF Meldungen, Unzustellbar, KeineMeldung

LEMMA ZeileFacts ==
  ASSUME TypeInv, NEW m \in Nachrichten
  PROVE  /\ ZeileOK(m, zeile[m])
         /\ zeile[m] = KeineZeile <=> zeile[m].status = "FEHLT"
         /\ zeile[m] # KeineZeile => zeile[m] \in ZeileTyp
         /\ eingeplant[m] \in Nat /\ hinweise[m] \in Nat
         /\ meldungen[m] \in SUBSET Meldungen
         /\ cms[m] \in Meldungen \union {"OFFEN", "VERWORFEN"}
         /\ auftrag[m] \in DOMAIN Abschluss \union {"QUEUED", "PROVIDER_ACCEPTED"}
  <1>1. ZeileOK(m, zeile[m])
    BY DEF TypeInv, TypeOK, ZeileOK, ZeileTyp
  <1>2. KeineZeile.status = "FEHLT"
    BY DEF KeineZeile
  <1> QED
    BY <1>1, <1>2 DEF TypeInv, TypeOK, ZeileOK, ZeileTyp, Status

LEMMA LaufFacts ==
  ASSUME TypeInv, NEW r \in Laeufe
  PROVE  /\ lauf \in [Laeufe -> LaufTyp] /\ lauf[r] \in LaufTyp
         /\ lauf[r].liste \in SUBSET Nachrichten
         /\ lauf[r].gesehen \in SUBSET Nachrichten
         /\ lauf[r].n \in Nachrichten \union {0}
  BY DEF TypeInv, TypeOK, LaufTyp

(* What is said of a row depends on its status and its reason.              *)
LEMMA MeldungFacts ==
  ASSUME NEW m \in Nachrichten, NEW z, ZeileOK(m, z)
  PROVE  /\ z.status \in Geschlossen => MeldungAus(z) \in Meldungen
         /\ z.status \notin Geschlossen => MeldungAus(z) = KeineMeldung
         /\ z.status = "ANGENOMMEN" => MeldungAus(z) = "ZUGESTELLT"
         /\ z.status \in {"GESCHEITERT", "UNZUSTELLBAR"} =>
              /\ MeldungAus(z) = Meldegrund[z.grund]
              /\ MeldungAus(z) \in Unzustellbar /\ z.grund \in DOMAIN Meldegrund
         /\ MeldungAus(z) \in Meldungen \union {KeineMeldung}
  <1>1. z.status \in {"GESCHEITERT", "UNZUSTELLBAR"} => z.grund \in DOMAIN Meldegrund
    BY DEF ZeileOK, ZeileTyp, KeineZeile, Gruende
  <1>2. /\ z.status = "ANGENOMMEN" => MeldungAus(z) = "ZUGESTELLT"
        /\ z.status \in {"GESCHEITERT", "UNZUSTELLBAR"} =>
             MeldungAus(z) = Meldegrund[z.grund]
        /\ z.status \notin Geschlossen => MeldungAus(z) = KeineMeldung
    BY DEF MeldungAus, Geschlossen
  <1> QED
    BY <1>1, <1>2, Meldungsliste DEF Geschlossen

(* A message that a run has before it is open to be worked on.              *)
Frei(m) ==
  /\ ~ (zeile[m] = KeineZeile /\ cms[m] \in Meldungen)
  /\ ~ (zeile[m] # KeineZeile /\ zeile[m].alt /\ zeile[m].gemeldet)

LEMMA BetrifftFrei ==
  ASSUME NEW m \in Nachrichten, NachrichtStimmt(m), NEW r \in Laeufe, Betrifft(r, m)
  PROVE  Frei(m)
  BY DEF NachrichtStimmt, OhneZeile, MitZeile, Frei

(* What no step touches stays true of a message, and of a run.              *)
LEMMA NachrichtBleibt ==
  ASSUME NEW m \in Nachrichten, NachrichtStimmt(m),
         zeile'[m] = zeile[m], cms'[m] = cms[m], auftrag'[m] = auftrag[m],
         eingeplant'[m] = eingeplant[m], hinweise'[m] = hinweise[m],
         meldungen'[m] = meldungen[m],
         m \in zugegangen' <=> m \in zugegangen,
         \A r \in Laeufe : Betrifft(r, m)' => Betrifft(r, m) \/ Frei(m)
  PROVE  NachrichtStimmt(m)'
  <1>1. OhneZeile(m)'
    BY DEF NachrichtStimmt, OhneZeile, Frei, Unberuehrt
  <1>2. MitZeile(m)'
    BY DEF NachrichtStimmt, MitZeile, Frei, Unberuehrt
  <1>3. AuftragStimmt(m)' /\ CmsStimmt(m)'
    BY DEF NachrichtStimmt, AuftragStimmt, CmsStimmt
  <1> QED
    BY <1>1, <1>2, <1>3 DEF NachrichtStimmt

LEMMA LaufBleibt ==
  ASSUME NEW q \in Laeufe, lauf'[q] = lauf[q], LaufStimmt(q),
         lauf[q].pc \in {"melden", "vermerken"} =>
           LET m == lauf[q].n
           IN zeile[m].status \in Geschlossen =>
                /\ zeile'[m].status = zeile[m].status
                /\ zeile'[m].grund = zeile[m].grund,
         lauf[q].pc = "vermerken" => cms'[lauf[q].n] = cms[lauf[q].n]
  PROVE  LaufStimmt(q)'
  <1> DEFINE m == lauf[q].n
  <1>1. lauf[q].pc \in {"melden", "vermerken"} =>
          /\ zeile'[m].status \in Geschlossen
          /\ MeldungAus(zeile'[m]) = MeldungAus(zeile[m])
    BY DEF LaufStimmt, MeldungAus
  <1> QED
    BY <1>1 DEF LaufStimmt

-----------------------------------------------------------------------------
(* Steps of a run                                                           *)

LEMMA WeiterFacts ==
  ASSUME TypeInv, NEW r \in Laeufe, lauf[r].n \in Nachrichten,
         NEW meldung \in Meldungen \union {KeineMeldung}, NEW gesehen \in BOOLEAN,
         WeiterMit(r, meldung, gesehen)
  PROVE  /\ lauf' \in [Laeufe -> LaufTyp]
         /\ \A q \in Laeufe \ {r} : lauf'[q] = lauf[q]
         /\ lauf'[r].liste = lauf[r].liste
         /\ meldung = KeineMeldung => lauf'[r].pc = "naechste"
         /\ meldung # KeineMeldung =>
              /\ lauf'[r].pc = "melden" /\ lauf'[r].n = lauf[r].n
              /\ lauf'[r].meldung = meldung
  <1> DEFINE pc == IF meldung = KeineMeldung THEN "naechste" ELSE "melden"
             n == IF meldung = KeineMeldung THEN 0 ELSE lauf[r].n
             g == IF gesehen /\ lauf[r].abgerufen
                  THEN lauf[r].gesehen \union {lauf[r].n} ELSE lauf[r].gesehen
             l == [lauf[r] EXCEPT !.pc = pc, !.meldung = meldung, !.n = n, !.gesehen = g]
  <1>1. lauf \in [Laeufe -> LaufTyp] /\ lauf[r] \in LaufTyp
    BY LaufFacts
  <1>2. lauf' = [lauf EXCEPT ![r] = l]
    BY <1>1 DEF WeiterMit, LaufTyp
  <1>3. pc \in {"naechste", "melden"} /\ n \in Nachrichten \union {0}
        /\ g \in SUBSET Nachrichten
    BY LaufFacts
  <1>4. /\ l \in LaufTyp /\ l.pc = pc /\ l.n = n /\ l.meldung = meldung
        /\ l.liste = lauf[r].liste
    <2> HIDE DEF pc, n, g
    <2> QED
      BY <1>1, <1>3 DEF LaufTyp
  <1> HIDE DEF l
  <1>5. lauf'[r] = l /\ lauf' \in [Laeufe -> LaufTyp]
        /\ \A q \in Laeufe \ {r} : lauf'[q] = lauf[q]
    BY <1>1, <1>2, <1>4
  <1> QED
    BY <1>4, <1>5

(* The run's message after such a step: none, or the same.                  *)
LEMMA WeiterBetrifft ==
  ASSUME NEW r \in Laeufe, lauf[r].pc \in AmWerk,
         \A q \in Laeufe \ {r} : lauf'[q] = lauf[q],
         lauf'[r].liste \subseteq lauf[r].liste,
         lauf'[r].pc \notin AmWerk \/ lauf'[r].n = lauf[r].n
  PROVE  \A q \in Laeufe : \A m : Betrifft(q, m)' => Betrifft(q, m)
  BY DEF Betrifft

(* Steps that change runs and the lease only.                               *)
LEMMA NurLauf ==
  ASSUME TypeInv, NachrichtInv, LaufInv, NEW r \in Laeufe,
         UNCHANGED <<cms, umwelt, zeile, auftrag, spur, zugegangen, meldungen>>,
         lauf' \in [Laeufe -> LaufTyp],
         lease' \in [halter : Laeufe \union {Niemand}, gueltig : BOOLEAN],
         \A q \in Laeufe \ {r} : lauf'[q] = lauf[q],
         \A m \in Nachrichten : Betrifft(r, m)' => Betrifft(r, m) \/ Frei(m),
         LaufStimmt(r)'
  PROVE  ZustellungInv'
  <1>1. TypeInv'
    BY DEF TypeInv, TypeOK, umwelt, spur, LaufTyp
  <1>2. NachrichtInv'
    <2> SUFFICES ASSUME NEW m \in Nachrichten PROVE NachrichtStimmt(m)'
      BY DEF NachrichtInv, NachrichtStimmt
    <2>1. NachrichtStimmt(m)
      BY DEF NachrichtInv, NachrichtStimmt
    <2>2. \A q \in Laeufe : Betrifft(q, m)' => Betrifft(q, m) \/ Frei(m)
      BY DEF Betrifft
    <2> QED
      BY <2>1, <2>2, NachrichtBleibt DEF spur
  <1>3. LaufInv'
    <2> SUFFICES ASSUME NEW q \in Laeufe \ {r} PROVE LaufStimmt(q)'
      BY DEF LaufInv
    <2> QED
      BY LaufBleibt DEF LaufInv
  <1> QED
    BY <1>1, <1>2, <1>3 DEF ZustellungInv

(* A run that knows the Tax-CMS's list, or the rows not reported, knows only *)
(* messages that are open to be worked on.                                   *)
LEMMA OffeneSindFrei ==
  ASSUME TypeInv, NachrichtInv, NEW m \in Nachrichten,
         \/ cms[m] = "OFFEN"
         \/ zeile[m] # KeineZeile /\ ~ zeile[m].gemeldet
  PROVE  Frei(m)
  <1>1. "OFFEN" \notin Meldungen
    BY Meldungsliste
  <1>2. zeile[m] # KeineZeile /\ zeile[m].gemeldet => cms[m] \in Meldungen
    <2> SUFFICES ASSUME zeile[m] # KeineZeile, zeile[m].gemeldet
                 PROVE  cms[m] \in Meldungen
      OBVIOUS
    <2>1. cms[m] = MeldungAus(zeile[m])
      BY DEF NachrichtInv, MitZeile
    <2>2. zeile[m].status \in Geschlossen
      BY ZeileFacts DEF ZeileOK, Status, Offen, Geschlossen, ZeileTyp
    <2> QED
      BY <2>1, <2>2, ZeileFacts, MeldungFacts
  <1> QED
    BY <1>1, <1>2 DEF Frei

LEMMA LaufWird ==
  ASSUME TypeInv, NachrichtInv, LaufInv, NEW r \in Laeufe, NEW l \in LaufTyp,
         UNCHANGED <<cms, umwelt, zeile, auftrag, spur, zugegangen, meldungen>>,
         lauf' = [lauf EXCEPT ![r] = l],
         lease' \in [halter : Laeufe \union {Niemand}, gueltig : BOOLEAN],
         \/ l = Ruht
         \/ l.pc \in {"abruf", "naechste", "freigeben"}
         \/ l.pc \in {"fuehren", "anlegen"} /\ l.n \in Nachrichten,
         \A m \in Nachrichten :
           m \in l.liste \/ (l.n = m /\ l.pc \in AmWerk) => Betrifft(r, m) \/ Frei(m)
  PROVE  ZustellungInv'
  <1>1. /\ lauf' \in [Laeufe -> LaufTyp] /\ lauf'[r] = l
        /\ \A q \in Laeufe \ {r} : lauf'[q] = lauf[q]
    BY LaufFacts
  <1>2. \A m \in Nachrichten : Betrifft(r, m)' => Betrifft(r, m) \/ Frei(m)
    <2> SUFFICES ASSUME NEW m \in Nachrichten, Betrifft(r, m)'
                 PROVE  Betrifft(r, m) \/ Frei(m)
      OBVIOUS
    <2>1. m \in l.liste \/ (l.n = m /\ l.pc \in AmWerk)
      BY <1>1 DEF Betrifft
    <2> QED
      BY <2>1
  <1>3. LaufStimmt(r)'
    BY <1>1 DEF LaufStimmt, AmWerk, Ruht
  <1> QED
    BY <1>1, <1>2, <1>3, NurLauf

LEMMA RuhtTyp == Ruht \in LaufTyp /\ Ruht.pc = "ruht" /\ Ruht.liste = {}
  BY DEF Ruht, LaufTyp

LEMMA LeaseFacts ==
  ASSUME TypeInv, NEW r \in Laeufe
  PROVE  /\ lease \in [halter : Laeufe \union {Niemand}, gueltig : BOOLEAN]
         /\ [halter |-> r, gueltig |-> TRUE] \in
              [halter : Laeufe \union {Niemand}, gueltig : BOOLEAN]
         /\ [halter |-> Niemand, gueltig |-> FALSE] \in
              [halter : Laeufe \union {Niemand}, gueltig : BOOLEAN]
  BY DEF TypeInv, TypeOK

(* The lease, the two lists and what ends a run.                            *)
LEMMA SchrittLauf ==
  ASSUME TypeInv, NachrichtInv, LaufInv, NEW r \in Laeufe,
         \/ Beanspruche(r) \/ Freigeben(r) \/ Abrufen(r) \/ LaufScheitert(r)
         \/ Bestaetigen(r) \/ FuehreOffeneNach(r) \/ KeineZeileGefunden(r)
         \/ Absturz(r)
  PROVE  ZustellungInv'
  <1>1. lauf \in [Laeufe -> LaufTyp] /\ lauf[r] \in LaufTyp
    BY LaufFacts
  <1>2. UNCHANGED <<cms, umwelt, zeile, auftrag, spur, zugegangen, meldungen>>
    BY DEF Beanspruche, Freigeben, Abrufen, LaufScheitert, Bestaetigen,
           FuehreOffeneNach, KeineZeileGefunden, Absturz
  <1>3. lease' \in [halter : Laeufe \union {Niemand}, gueltig : BOOLEAN]
    <2>1. \/ lease' = lease \/ lease' = [halter |-> r, gueltig |-> TRUE]
          \/ lease' = [halter |-> Niemand, gueltig |-> FALSE]
      BY DEF Beanspruche, Freigeben, Abrufen, LaufScheitert, Bestaetigen,
             FuehreOffeneNach, KeineZeileGefunden, Absturz
    <2> QED
      BY <2>1, LeaseFacts
  <1>4. CASE Beanspruche(r) \/ LaufScheitert(r) \/ KeineZeileGefunden(r)
    <2>1. PICK pc \in {"abruf", "freigeben", "anlegen"} :
            /\ lauf' = [lauf EXCEPT ![r].pc = pc]
            /\ pc = "anlegen" => lauf[r].pc = "fuehren"
      BY <1>4 DEF Beanspruche, LaufScheitert, KeineZeileGefunden
    <2> DEFINE l == [lauf[r] EXCEPT !.pc = pc]
    <2>2. /\ l \in LaufTyp /\ l.pc = pc /\ l.liste = lauf[r].liste /\ l.n = lauf[r].n
      BY <1>1 DEF LaufTyp
    <2>3. lauf' = [lauf EXCEPT ![r] = l]
      BY <1>1, <2>1
    <2> HIDE DEF l
    <2>4. pc = "anlegen" => l.n \in Nachrichten
      BY <2>1, <2>2 DEF LaufInv, LaufStimmt, AmWerk
    <2>5. \A m \in Nachrichten :
            m \in l.liste \/ (l.n = m /\ l.pc \in AmWerk) => Betrifft(r, m)
      BY <2>1, <2>2 DEF Betrifft, AmWerk
    <2> QED
      BY <1>2, <1>3, <2>2, <2>3, <2>4, <2>5, LaufWird
  <1>5. CASE Freigeben(r) \/ Absturz(r)
    <2>1. lauf' = [lauf EXCEPT ![r] = Ruht]
      BY <1>5 DEF Freigeben, Absturz
    <2>2. \A m \in Nachrichten :
            m \in Ruht.liste \/ (Ruht.n = m /\ Ruht.pc \in AmWerk) => Betrifft(r, m)
      BY RuhtTyp DEF AmWerk
    <2> QED
      BY <1>2, <1>3, <2>1, <2>2, RuhtTyp, LaufWird
  <1>6. CASE Abrufen(r)
    <2> DEFINE S == Aelteste({m \in Nachrichten : cms[m] = "OFFEN"})
               l == [lauf[r] EXCEPT !.pc = "naechste", !.abgerufen = TRUE, !.liste = S]
    <2>1. S \subseteq {m \in Nachrichten : cms[m] = "OFFEN"}
      BY DEF Aelteste
    <2>2. lauf' = [lauf EXCEPT ![r] = l]
      BY <1>1, <1>6 DEF Abrufen, LaufTyp
    <2>3. l \in LaufTyp /\ l.pc = "naechste" /\ l.liste = S
      <3> HIDE DEF S
      <3> QED
        BY <1>1, <2>1 DEF LaufTyp
    <2> HIDE DEF l, S
    <2>4. \A m \in Nachrichten :
            m \in l.liste \/ (l.n = m /\ l.pc \in AmWerk) => Frei(m)
      BY <2>1, <2>3, OffeneSindFrei DEF AmWerk
    <2> QED
      BY <1>2, <1>3, <2>2, <2>3, <2>4, LaufWird
  <1>7. CASE FuehreOffeneNach(r)
    <2> DEFINE S == Aelteste(Nachzufuehren(r))
               l == [lauf[r] EXCEPT !.abgerufen = FALSE, !.gesehen = {}, !.liste = S]
    <2>1. S \subseteq {m \in Nachrichten : zeile[m] # KeineZeile /\ ~ zeile[m].gemeldet}
      BY DEF Aelteste, Nachzufuehren
    <2>2. lauf' = [lauf EXCEPT ![r] = l] /\ lauf[r].pc = "naechste"
      BY <1>1, <1>7 DEF FuehreOffeneNach, LaufTyp
    <2>3. l \in LaufTyp /\ l.pc = "naechste" /\ l.liste = S
      <3> HIDE DEF S
      <3> QED
        BY <1>1, <2>1, <2>2 DEF LaufTyp
    <2> HIDE DEF l, S
    <2>4. \A m \in Nachrichten :
            m \in l.liste \/ (l.n = m /\ l.pc \in AmWerk) => Frei(m)
      BY <2>1, <2>3, OffeneSindFrei DEF AmWerk
    <2> QED
      BY <1>2, <1>3, <2>2, <2>3, <2>4, LaufWird
  <1>8. CASE Bestaetigen(r)
    <2>1. PICK m \in lauf[r].liste :
            lauf' = IF EigenerLease(r)
                    THEN [lauf EXCEPT ![r].pc = "fuehren", ![r].n = m,
                                      ![r].liste = @ \ {m}]
                    ELSE [lauf EXCEPT ![r].pc = "freigeben"]
      BY <1>8 DEF Bestaetigen
    <2>2. m \in Nachrichten
      BY LaufFacts
    <2> DEFINE L == lauf[r].liste \ {m}
               k == [lauf[r] EXCEPT !.pc = "fuehren", !.n = m, !.liste = L]
               f == [lauf[r] EXCEPT !.pc = "freigeben"]
    <2>3. /\ k \in LaufTyp /\ k.pc = "fuehren" /\ k.n = m
          /\ k.liste \subseteq lauf[r].liste
      <3>1. L \in SUBSET Nachrichten /\ L \subseteq lauf[r].liste
        BY LaufFacts
      <3> HIDE DEF L
      <3> QED
        BY <1>1, <2>2, <3>1 DEF LaufTyp
    <2>4. f \in LaufTyp /\ f.pc = "freigeben" /\ f.liste = lauf[r].liste
      BY <1>1 DEF LaufTyp
    <2>5. lauf' = [lauf EXCEPT ![r] = k] \/ lauf' = [lauf EXCEPT ![r] = f]
      BY <1>1, <2>1 DEF LaufTyp
    <2> HIDE DEF k, f
    <2>6. \A i \in Nachrichten :
            /\ i \in k.liste \/ (k.n = i /\ k.pc \in AmWerk) => Betrifft(r, i)
            /\ i \in f.liste \/ (f.n = i /\ f.pc \in AmWerk) => Betrifft(r, i)
      BY <2>3, <2>4 DEF Betrifft, AmWerk
    <2>7. CASE lauf' = [lauf EXCEPT ![r] = k]
      BY <1>2, <1>3, <2>2, <2>3, <2>6, <2>7, LaufWird
    <2>8. CASE lauf' = [lauf EXCEPT ![r] = f]
      BY <1>2, <1>3, <2>4, <2>6, <2>8, LaufWird
    <2> QED
      BY <2>5, <2>7, <2>8
  <1> QED
    BY <1>4, <1>5, <1>6, <1>7, <1>8

(* A step that leaves its message's row as it is: the run reports what a    *)
(* closed row says, or goes on.                                             *)
LEMMA WeiterOhneZeile ==
  ASSUME TypeInv, NachrichtInv, LaufInv, NEW r \in Laeufe,
         NEW meldung \in Meldungen \union {KeineMeldung}, NEW gesehen \in BOOLEAN,
         lauf[r].pc \in AmWerk, WeiterMit(r, meldung, gesehen),
         UNCHANGED <<cms, umwelt, zeile, auftrag, lease, spur, zugegangen, meldungen>>,
         LET z == zeile[lauf[r].n]
         IN \/ meldung = KeineMeldung
            \/ z.status \in Geschlossen /\ meldung = MeldungAus(z)
  PROVE  ZustellungInv'
  <1>1. lauf[r].n \in Nachrichten
    BY DEF LaufInv, LaufStimmt
  <1>2. /\ lauf' \in [Laeufe -> LaufTyp]
        /\ \A q \in Laeufe \ {r} : lauf'[q] = lauf[q]
        /\ lauf'[r].liste = lauf[r].liste
        /\ meldung = KeineMeldung => lauf'[r].pc = "naechste"
        /\ meldung # KeineMeldung =>
             /\ lauf'[r].pc = "melden" /\ lauf'[r].n = lauf[r].n
             /\ lauf'[r].meldung = meldung
    BY <1>1, WeiterFacts
  <1>3. \A m \in Nachrichten : Betrifft(r, m)' => Betrifft(r, m)
    BY <1>2, WeiterBetrifft DEF AmWerk
  <1>4. LaufStimmt(r)'
    BY <1>1, <1>2 DEF LaufStimmt, AmWerk
  <1> QED
    BY <1>2, <1>3, <1>4, NurLauf, LeaseFacts

LEMMA SchrittBleibt ==
  ASSUME TypeInv, NachrichtInv, LaufInv, NEW r \in Laeufe,
         \/ Bereits(r) \/ Konkurrenz(r) \/ EinplanungScheitert(r)
         \/ UebernimmAuftrag(r) /\ UNCHANGED zeile
            /\ ~ NimmtAuf(auftrag[lauf[r].n])
  PROVE  ZustellungInv'
  <1>1. /\ lauf[r].pc \in {"fuehren", "anlegen"}
        /\ UNCHANGED <<cms, umwelt, zeile, auftrag, lease, spur, zugegangen, meldungen>>
    BY DEF Bereits, Konkurrenz, EinplanungScheitert, UebernimmAuftrag
  <1>2. CASE WeiterMit(r, KeineMeldung, FALSE)
    <2>1. /\ lauf[r].pc \in AmWerk /\ FALSE \in BOOLEAN
          /\ KeineMeldung \in Meldungen \union {KeineMeldung}
      BY <1>1 DEF AmWerk
    <2> QED
      BY <1>1, <1>2, <2>1, WeiterOhneZeile
  <1>3. CASE Bereits(r)
    <2> DEFINE z == zeile[lauf[r].n]
    <2>1. lauf[r].n \in Nachrichten
      BY <1>1 DEF LaufInv, LaufStimmt, AmWerk
    <2>2. /\ z.status \notin Geschlossen => MeldungAus(z) = KeineMeldung
          /\ MeldungAus(z) \in Meldungen \union {KeineMeldung}
      BY <2>1, ZeileFacts, MeldungFacts
    <2>3. WeiterMit(r, MeldungAus(z), TRUE)
      BY <1>3 DEF Bereits
    <2> QED
      BY <1>1, <2>2, <2>3, WeiterOhneZeile DEF AmWerk
  <1> QED
    BY <1>2, <1>3 DEF Konkurrenz, EinplanungScheitert, UebernimmAuftrag

-----------------------------------------------------------------------------
(* Steps that change a message                                              *)

LEMMA EineNachricht ==
  ASSUME NachrichtInv, NEW m \in Nachrichten,
         \A k \in Nachrichten \ {m} :
           /\ zeile'[k] = zeile[k] /\ cms'[k] = cms[k] /\ auftrag'[k] = auftrag[k]
           /\ eingeplant'[k] = eingeplant[k] /\ hinweise'[k] = hinweise[k]
           /\ meldungen'[k] = meldungen[k]
           /\ k \in zugegangen' <=> k \in zugegangen,
         \A q \in Laeufe : \A k : Betrifft(q, k)' => Betrifft(q, k),
         NachrichtStimmt(m)'
  PROVE  NachrichtInv'
  <1> SUFFICES ASSUME NEW k \in Nachrichten \ {m} PROVE NachrichtStimmt(k)'
    BY DEF NachrichtInv, NachrichtStimmt
  <1>1. NachrichtStimmt(k)
    BY DEF NachrichtInv, NachrichtStimmt
  <1> QED
    BY <1>1, NachrichtBleibt

LEMMA AlleLaeufe ==
  ASSUME TypeInv, LaufInv,
         \A k \in Nachrichten : zeile[k].status \in Geschlossen =>
           \/ /\ zeile'[k].status = zeile[k].status
              /\ zeile'[k].grund = zeile[k].grund
           \/ \A q \in Laeufe : ~ Betrifft(q, k),
         \A k \in Nachrichten : cms[k] \in Meldungen => cms'[k] = cms[k],
         \A q \in Laeufe : lauf'[q] = lauf[q] \/ LaufStimmt(q)'
  PROVE  LaufInv'
  <1> SUFFICES ASSUME NEW q \in Laeufe, lauf'[q] = lauf[q] PROVE LaufStimmt(q)'
    BY DEF LaufInv
  <1> DEFINE m == lauf[q].n
  <1>1. LaufStimmt(q)
    BY DEF LaufInv
  <1>2. CASE lauf[q].pc \in {"melden", "vermerken"}
    <2>1. /\ m \in Nachrichten /\ Betrifft(q, m)
          /\ zeile[m].status \in Geschlossen
      BY <1>1, <1>2 DEF LaufStimmt, Betrifft, AmWerk
    <2>2. lauf[q].pc = "vermerken" => cms[m] \in Meldungen
      BY <1>1, <2>1, ZeileFacts, MeldungFacts DEF LaufStimmt
    <2> QED
      BY <1>1, <2>1, <2>2, LaufBleibt
  <1>3. CASE lauf[q].pc \notin {"melden", "vermerken"}
    BY <1>1, <1>3, LaufBleibt
  <1> QED
    BY <1>2, <1>3

(* auftragsAbschluss: how the order ended, as status and reason.            *)
LEMMA AbschlussFacts ==
  ASSUME NEW m \in Nachrichten, NEW z \in ZeileTyp, ZeileOK(m, z),
         z.status = "EINGEPLANT",
         NEW a \in {"PROVIDER_ACCEPTED"} \union DOMAIN Abschluss
  PROVE  LET e == MitAbschluss(z, a)
         IN /\ e \in ZeileTyp /\ ZeileOK(m, e)
            /\ e.status = IF a = "PROVIDER_ACCEPTED" THEN "ANGENOMMEN" ELSE "GESCHEITERT"
            /\ e.hinweis = z.hinweis /\ ~ e.gemeldet /\ e.alt = z.alt
            /\ MeldungAus(e) \in Beschuldigt =>
                 a \in {"SKIPPED_ABGELAUFEN", "SKIPPED_INAKTIV"}
  <1> DEFINE e == MitAbschluss(z, a)
  <1>0. ~ z.gemeldet /\ m \in Kontakt /\ z.grund = "OHNE" /\ z # KeineZeile
    <2>1. KeineZeile.status = "FEHLT"
      BY DEF KeineZeile
    <2> QED
      BY <2>1 DEF ZeileOK, Offen
  <1>1. CASE a = "PROVIDER_ACCEPTED"
    <2>1. /\ e \in ZeileTyp /\ e.status = "ANGENOMMEN" /\ e.grund = "OHNE"
          /\ e.hinweis = z.hinweis /\ e.gemeldet = z.gemeldet /\ e.alt = z.alt
      BY <1>0, <1>1 DEF MitAbschluss, ZeileTyp, Status
    <2>2. ZeileOK(m, e)
      BY <1>0, <2>1 DEF ZeileOK
    <2>3. MeldungAus(e) = "ZUGESTELLT"
      BY <2>1 DEF MeldungAus
    <2> QED
      BY <1>0, <1>1, <2>1, <2>2, <2>3, Meldungsliste DEF Beschuldigt
  <1>2. CASE a # "PROVIDER_ACCEPTED"
    <2>1. /\ Abschluss[a] \in DOMAIN Meldegrund
          /\ Abschluss[a] \in {"ABGELAUFEN", "KONTAKT_INAKTIV", "PERSON_INAKTIV"} =>
               a \in {"SKIPPED_ABGELAUFEN", "SKIPPED_INAKTIV"}
      <3>1. /\ Abschluss["FAILED"] = "VERSAND_GESCHEITERT"
            /\ Abschluss["UNKNOWN"] = "VERSAND_UNKLAR"
            /\ Abschluss["SKIPPED_ABGELAUFEN"] = "ABGELAUFEN"
            /\ Abschluss["SKIPPED_INAKTIV"] = "KONTAKT_INAKTIV"
            /\ Abschluss["SKIPPED_FREMD"] = "VERSAND_VERWORFEN"
            /\ Abschluss["KEINER"] = "AUFTRAG_FEHLT"
        BY DEF Abschluss
      <3> QED
        BY <1>2, <3>1, Gruendliste
    <2>2. Abschluss[a] \in Gruende /\ Abschluss[a] # "OHNE"
      BY <2>1, Gruendliste DEF Gruende
    <2>3. /\ e \in ZeileTyp /\ e.status = "GESCHEITERT" /\ e.grund = Abschluss[a]
          /\ e.hinweis = z.hinweis /\ e.gemeldet = z.gemeldet /\ e.alt = z.alt
      BY <1>2, <2>2 DEF MitAbschluss, ZeileTyp, Status
    <2>4. ZeileOK(m, e)
      BY <1>0, <2>2, <2>3 DEF ZeileOK, Offen
    <2>5. MeldungAus(e) = Meldegrund[Abschluss[a]]
      BY <2>3 DEF MeldungAus
    <2>6. \A g \in DOMAIN Meldegrund :
            Meldegrund[g] # "SONSTIGES" =>
              g \in {"ABGELAUFEN", "KONTAKT_INAKTIV", "PERSON_INAKTIV"}
      BY Gruendliste DEF Meldegrund
    <2> QED
      BY <1>0, <1>2, <2>1, <2>3, <2>4, <2>5, <2>6 DEF Beschuldigt
  <1> QED
    BY <1>1, <1>2

(* The row of a run's message is rewritten; the run goes on.                *)
LEMMA NeueZeileTyp ==
  ASSUME TypeInv, NEW m \in Nachrichten, NEW z, ZeileOK(m, z),
         zeile' = [zeile EXCEPT ![m] = z], UNCHANGED <<cms, umwelt, lease>>,
         auftrag' \in [Nachrichten -> DOMAIN Abschluss \union
                                       {"QUEUED", "PROVIDER_ACCEPTED"}],
         lauf' \in [Laeufe -> LaufTyp],
         eingeplant' \in [Nachrichten -> Nat], hinweise' \in [Nachrichten -> Nat],
         zugegangen' \in SUBSET Nachrichten, UNCHANGED meldungen
  PROVE  TypeInv'
  <1>1. /\ DOMAIN zeile' = Nachrichten /\ zeile'[m] = z
        /\ \A k \in Nachrichten \ {m} : zeile'[k] = zeile[k]
    BY DEF TypeInv
  <1>2. \A k \in Nachrichten : ZeileOK(k, zeile'[k])
    BY <1>1, ZeileFacts
  <1>3. TypeOK'
    BY <1>2 DEF TypeInv, TypeOK, ZeileOK, ZeileTyp, LaufTyp
  <1> QED
    BY <1>1, <1>3 DEF TypeInv, umwelt

LEMMA SchreibtWeiter ==
  ASSUME TypeInv, NachrichtInv, LaufInv, NEW r \in Laeufe,
         NEW m \in Nachrichten, m = lauf[r].n, lauf[r].pc \in {"fuehren", "anlegen"},
         zeile[m].status \notin Geschlossen,
         NEW z, ZeileOK(m, z), zeile' = [zeile EXCEPT ![m] = z],
         NEW gesehen \in BOOLEAN, WeiterMit(r, MeldungAus(z), gesehen),
         UNCHANGED <<cms, umwelt, lease, meldungen>>,
         auftrag' \in [Nachrichten -> DOMAIN Abschluss \union
                                       {"QUEUED", "PROVIDER_ACCEPTED"}],
         eingeplant' \in [Nachrichten -> Nat], hinweise' \in [Nachrichten -> Nat],
         zugegangen' \in SUBSET Nachrichten,
         \A k \in Nachrichten \ {m} :
           /\ auftrag'[k] = auftrag[k] /\ eingeplant'[k] = eingeplant[k]
           /\ hinweise'[k] = hinweise[k]
           /\ k \in zugegangen' <=> k \in zugegangen,
         NachrichtStimmt(m)'
  PROVE  ZustellungInv'
  <1> DEFINE meldung == MeldungAus(z)
  <1>1. /\ meldung \in Meldungen \union {KeineMeldung}
        /\ meldung # KeineMeldung => z.status \in Geschlossen
    BY MeldungFacts
  <1> HIDE DEF meldung
  <1>2. WeiterMit(r, meldung, gesehen)
    BY DEF meldung
  <1>3. /\ lauf' \in [Laeufe -> LaufTyp]
        /\ \A q \in Laeufe \ {r} : lauf'[q] = lauf[q]
        /\ lauf'[r].liste = lauf[r].liste
        /\ meldung = KeineMeldung => lauf'[r].pc = "naechste"
        /\ meldung # KeineMeldung =>
             /\ lauf'[r].pc = "melden" /\ lauf'[r].n = m
             /\ lauf'[r].meldung = meldung
    BY <1>1, <1>2, WeiterFacts
  <1>4. /\ zeile'[m] = z
        /\ \A k \in Nachrichten \ {m} : zeile'[k] = zeile[k]
    BY DEF TypeInv
  <1>5. TypeInv'
    BY <1>3, NeueZeileTyp
  <1>6. \A q \in Laeufe : \A k : Betrifft(q, k)' => Betrifft(q, k)
    BY <1>3, WeiterBetrifft DEF AmWerk
  <1>7. NachrichtInv'
    <2>1. \A k \in Nachrichten \ {m} :
            /\ zeile'[k] = zeile[k] /\ cms'[k] = cms[k] /\ auftrag'[k] = auftrag[k]
            /\ eingeplant'[k] = eingeplant[k] /\ hinweise'[k] = hinweise[k]
            /\ meldungen'[k] = meldungen[k]
            /\ k \in zugegangen' <=> k \in zugegangen
      BY <1>4
    <2> QED
      BY <1>6, <2>1, EineNachricht
  <1>8. LaufStimmt(r)'
    BY <1>1, <1>3, <1>4 DEF LaufStimmt, AmWerk, meldung
  <1>9. LaufInv'
    BY <1>3, <1>4, <1>8, AlleLaeufe
  <1> QED
    BY <1>5, <1>7, <1>9 DEF ZustellungInv

LEMMA SchrittUebernimmt ==
  ASSUME TypeInv, NachrichtInv, LaufInv, NEW r \in Laeufe,
         UebernimmAuftrag(r)
  PROVE  ZustellungInv'
  <1>1. CASE ~ NimmtAuf(auftrag[lauf[r].n])
    <2>1. UNCHANGED zeile
      BY <1>1 DEF UebernimmAuftrag
    <2> QED
      BY <1>1, <2>1, SchrittBleibt
  <1>2. CASE NimmtAuf(auftrag[lauf[r].n])
    <2>1. PICK m \in Nachrichten : m = lauf[r].n
      BY DEF UebernimmAuftrag, LaufInv, LaufStimmt, AmWerk
    <2>2. PICK a \in {"PROVIDER_ACCEPTED"} \union DOMAIN Abschluss : a = auftrag[m]
      BY <1>2, <2>1 DEF NimmtAuf
    <2>3. PICK z : z = MitAbschluss(zeile[m], a)
      OBVIOUS
    <2>4. /\ zeile[m].status = "EINGEPLANT" /\ lauf[r].pc = "fuehren"
          /\ zeile' = [zeile EXCEPT ![m] = z] /\ WeiterMit(r, MeldungAus(z), TRUE)
          /\ UNCHANGED <<cms, umwelt, auftrag, lease, spur, zugegangen, meldungen>>
      BY <1>2, <2>1, <2>2, <2>3 DEF UebernimmAuftrag, Uebernehmbar
    <2>5. zeile[m] \in ZeileTyp /\ ZeileOK(m, zeile[m]) /\ zeile[m] # KeineZeile
      BY <2>4, ZeileFacts
    <2>6. /\ z \in ZeileTyp /\ ZeileOK(m, z)
          /\ z.status = IF a = "PROVIDER_ACCEPTED" THEN "ANGENOMMEN" ELSE "GESCHEITERT"
          /\ z.hinweis = zeile[m].hinweis /\ ~ z.gemeldet /\ z.alt = zeile[m].alt
          /\ MeldungAus(z) \in Beschuldigt =>
               a \in {"SKIPPED_ABGELAUFEN", "SKIPPED_INAKTIV"}
      BY <2>3, <2>4, <2>5, AbschlussFacts
    <2>7. NachrichtStimmt(m)'
      <3>1. NachrichtStimmt(m)
        BY DEF NachrichtInv, NachrichtStimmt
      <3>2. zeile'[m] = z /\ z # KeineZeile
        <4>1. KeineZeile.status = "FEHLT"
          BY DEF KeineZeile
        <4> QED
          BY <2>4, <2>6, <4>1 DEF TypeInv
      <3>3. a # "QUEUED"
        BY <2>2, Gruendliste
      <3>4. ~ zeile[m].gemeldet /\ ~ zeile[m].alt
        BY <2>4, <2>5, <3>1 DEF ZeileOK, NachrichtStimmt, MitZeile, Offen
      <3>5. MitZeile(m)'
        BY <2>2, <2>4, <2>5, <2>6, <3>1, <3>2, <3>3, <3>4
           DEF NachrichtStimmt, MitZeile, AuftragStimmt, Offen, Geschlossen, spur
      <3>6. AuftragStimmt(m)' /\ CmsStimmt(m)'
        BY <2>2, <2>4, <3>1, <3>3 DEF NachrichtStimmt, AuftragStimmt, CmsStimmt
      <3> QED
        BY <3>2, <3>5, <3>6 DEF NachrichtStimmt, OhneZeile
    <2>8. /\ auftrag' \in [Nachrichten -> DOMAIN Abschluss \union
                                           {"QUEUED", "PROVIDER_ACCEPTED"}]
          /\ eingeplant' \in [Nachrichten -> Nat] /\ hinweise' \in [Nachrichten -> Nat]
          /\ zugegangen' \in SUBSET Nachrichten
      BY <2>4 DEF TypeInv, TypeOK, spur
    <2> QED
      BY <2>1, <2>4, <2>6, <2>7, <2>8, SchreibtWeiter DEF Geschlossen, spur
  <1> QED
    BY <1>1, <1>2

(* The row whose recipient is checked: a new one, or one put off.           *)
Pruefbar(m, z) ==
  /\ z \in ZeileTyp /\ z.status = "ZURUECKGESTELLT" /\ ~ z.gemeldet
  /\ zeile[m].status \notin Geschlossen
  /\ Unberuehrt(m) /\ meldungen[m] = {} /\ cms[m] \notin Meldungen
  /\ hinweise[m] = (IF z.hinweis THEN 1 ELSE 0)

LEMMA Plant ==
  ASSUME TypeInv, NachrichtInv, LaufInv, NEW r \in Laeufe,
         NEW m \in Nachrichten, m = lauf[r].n, lauf[r].pc \in {"fuehren", "anlegen"},
         NEW z, Pruefbar(m, z), PlaneZustellungEin(m, z),
         UNCHANGED <<cms, umwelt, lease, meldungen, zaehler>>,
         WeiterMit(r, MeldungAus(zeile'[m]), zeile'[m].status # "ZURUECKGESTELLT")
  PROVE  ZustellungInv'
  <1> DEFINE e == [z EXCEPT !.status = IF m \in Kontakt THEN "EINGEPLANT" ELSE "ANGENOMMEN",
                            !.grund = "OHNE", !.alt = FALSE]
  <1>1. /\ e \in ZeileTyp /\ e.hinweis = z.hinweis /\ ~ e.gemeldet /\ ~ e.alt
        /\ e.status = (IF m \in Kontakt THEN "EINGEPLANT" ELSE "ANGENOMMEN")
        /\ e.grund = "OHNE"
    BY DEF Pruefbar, ZeileTyp, Status, Gruende
  <1>2. /\ zeile' = [zeile EXCEPT ![m] = e]
        /\ auftrag' = [auftrag EXCEPT ![m] = IF m \in Kontakt THEN "QUEUED" ELSE @]
        /\ zugegangen' = zugegangen \union ({m} \ Kontakt)
        /\ eingeplant' = [eingeplant EXCEPT ![m] = @ + 1]
        /\ UNCHANGED hinweise
    BY DEF PlaneZustellungEin
  <1> HIDE DEF e
  <1>3. zeile'[m] = e /\ e # KeineZeile
    <2>1. KeineZeile.status = "FEHLT"
      BY DEF KeineZeile
    <2> QED
      BY <1>1, <1>2, <2>1 DEF TypeInv
  <1>4. ZeileOK(m, e)
    BY <1>1 DEF ZeileOK
  <1>5. /\ auftrag' \in [Nachrichten -> DOMAIN Abschluss \union
                                         {"QUEUED", "PROVIDER_ACCEPTED"}]
        /\ eingeplant' \in [Nachrichten -> Nat] /\ hinweise' \in [Nachrichten -> Nat]
        /\ zugegangen' \in SUBSET Nachrichten
        /\ auftrag'[m] = (IF m \in Kontakt THEN "QUEUED" ELSE auftrag[m])
        /\ eingeplant'[m] = eingeplant[m] + 1
        /\ \A k \in Nachrichten \ {m} :
             /\ auftrag'[k] = auftrag[k] /\ eingeplant'[k] = eingeplant[k]
             /\ hinweise'[k] = hinweise[k]
             /\ k \in zugegangen' <=> k \in zugegangen
    BY <1>2 DEF TypeInv, TypeOK
  <1>6. NachrichtStimmt(m)'
    <2>1. /\ eingeplant[m] = 0 /\ m \notin zugegangen /\ auftrag[m] = "KEINER"
          /\ meldungen[m] = {} /\ cms[m] \notin Meldungen
          /\ hinweise[m] = (IF z.hinweis THEN 1 ELSE 0)
      BY DEF Pruefbar, Unberuehrt
    <2>2. m \notin Kontakt => MeldungAus(e) = "ZUGESTELLT"
      BY <1>1 DEF MeldungAus
    <2>3. "ZUGESTELLT" \notin Beschuldigt /\ Beschuldigt \subseteq Meldungen
      BY Meldungsliste DEF Beschuldigt
    <2>4. MitZeile(m)'
      BY <1>1, <1>2, <1>3, <1>5, <2>1, <2>2, <2>3 DEF MitZeile, Geschlossen, Offen
    <2>5. AuftragStimmt(m)'
      BY <1>1, <1>2, <1>3, <1>5, <2>1 DEF AuftragStimmt
    <2>6. CmsStimmt(m)'
      BY <2>1, <2>3, Meldungsliste DEF CmsStimmt
    <2> QED
      BY <1>3, <2>4, <2>5, <2>6 DEF NachrichtStimmt, OhneZeile
  <1>7. PICK g \in BOOLEAN : WeiterMit(r, MeldungAus(e), g)
    <2>1. WeiterMit(r, MeldungAus(e), e.status # "ZURUECKGESTELLT")
      BY <1>3 DEF WeiterMit
    <2> QED
      BY <2>1
  <1> QED
    <2>1. zeile[m].status \notin Geschlossen /\ UNCHANGED <<cms, umwelt, lease, meldungen>>
      BY DEF Pruefbar
    <2>2. zeile' = [zeile EXCEPT ![m] = e]
      BY <1>2
    <2> QED
      BY <1>4, <1>5, <1>6, <1>7, <2>1, <2>2, SchreibtWeiter, ZenonT(40)

LEMMA StelltZurueck ==
  ASSUME TypeInv, NachrichtInv, LaufInv, NEW r \in Laeufe,
         NEW m \in Nachrichten, m = lauf[r].n, lauf[r].pc \in {"fuehren", "anlegen"},
         NEW z, Pruefbar(m, z), StelleZurueck(m, z),
         UNCHANGED <<cms, umwelt, lease, meldungen, zaehler>>,
         WeiterMit(r, MeldungAus(zeile'[m]), zeile'[m].status # "ZURUECKGESTELLT")
  PROVE  ZustellungInv'
  <1>1. PICK g \in {"ABGELAUFEN", "KONTAKT_INAKTIV", "PERSON_INAKTIV"} : g = Pruefung(m)
    BY DEF StelleZurueck, Pruefung, TypeInv, Befund
  <1>2. PICK s \in {"UNZUSTELLBAR", "ZURUECKGESTELLT"} :
          s = IF Abschliessen(m, z) THEN "UNZUSTELLBAR" ELSE "ZURUECKGESTELLT"
    OBVIOUS
  <1> DEFINE e == [z EXCEPT !.status = s, !.grund = g, !.alt = FALSE, !.hinweis = TRUE]
  <1>3. /\ e \in ZeileTyp /\ e.hinweis /\ ~ e.gemeldet /\ ~ e.alt
        /\ e.status = s /\ e.grund = g
    BY Gruendliste DEF Pruefbar, ZeileTyp, Status, Gruende
  <1>4. /\ zeile' = [zeile EXCEPT ![m] = e]
        /\ hinweise' = [hinweise EXCEPT ![m] = IF z.hinweis THEN @ ELSE @ + 1]
        /\ UNCHANGED <<auftrag, zugegangen, eingeplant>>
    BY <1>1, <1>2 DEF StelleZurueck, HinweisFaellig
  <1> HIDE DEF e
  <1>5. zeile'[m] = e /\ e # KeineZeile
    <2>1. KeineZeile.status = "FEHLT"
      BY DEF KeineZeile
    <2> QED
      BY <1>3, <1>4, <2>1 DEF TypeInv
  <1>6. ZeileOK(m, e)
    BY <1>3 DEF ZeileOK
  <1>7. /\ auftrag' \in [Nachrichten -> DOMAIN Abschluss \union
                                         {"QUEUED", "PROVIDER_ACCEPTED"}]
        /\ eingeplant' \in [Nachrichten -> Nat] /\ hinweise' \in [Nachrichten -> Nat]
        /\ zugegangen' \in SUBSET Nachrichten
        /\ hinweise'[m] = (IF z.hinweis THEN hinweise[m] ELSE hinweise[m] + 1)
        /\ \A k \in Nachrichten \ {m} :
             /\ auftrag'[k] = auftrag[k] /\ eingeplant'[k] = eingeplant[k]
             /\ hinweise'[k] = hinweise[k]
             /\ k \in zugegangen' <=> k \in zugegangen
    BY <1>4 DEF TypeInv, TypeOK
  <1>8. NachrichtStimmt(m)'
    <2>1. /\ Unberuehrt(m)' /\ m \notin zugegangen' /\ auftrag'[m] = "KEINER"
          /\ meldungen'[m] = {} /\ cms'[m] \notin Meldungen
          /\ hinweise[m] = (IF z.hinweis THEN 1 ELSE 0)
      BY <1>4 DEF Pruefbar, Unberuehrt
    <2>2. MitZeile(m)'
      BY <1>3, <1>5, <1>7, <2>1 DEF MitZeile, Geschlossen, Offen
    <2>3. AuftragStimmt(m)'
      BY <2>1 DEF AuftragStimmt
    <2>4. CmsStimmt(m)'
      BY <2>1, Meldungsliste DEF CmsStimmt, Beschuldigt
    <2> QED
      BY <1>5, <2>2, <2>3, <2>4 DEF NachrichtStimmt, OhneZeile
  <1>9. PICK h \in BOOLEAN : WeiterMit(r, MeldungAus(e), h)
    <2>1. WeiterMit(r, MeldungAus(e), e.status # "ZURUECKGESTELLT")
      BY <1>5 DEF WeiterMit
    <2> QED
      BY <2>1
  <1> QED
    <2>1. zeile[m].status \notin Geschlossen /\ UNCHANGED <<cms, umwelt, lease, meldungen>>
      BY DEF Pruefbar
    <2>2. zeile' = [zeile EXCEPT ![m] = e]
      BY <1>4
    <2> QED
      BY <1>6, <1>7, <1>8, <1>9, <2>1, <2>2, SchreibtWeiter

LEMMA SchrittPrueft ==
  ASSUME TypeInv, NachrichtInv, LaufInv, NEW r \in Laeufe,
         PruefeErneut(r) \/ LegeAn(r)
  PROVE  ZustellungInv'
  <1>1. PICK m \in Nachrichten : m = lauf[r].n
    BY DEF PruefeErneut, LegeAn, LaufInv, LaufStimmt, AmWerk
  <1>2. NachrichtStimmt(m) /\ Frei(m) /\ lauf[r].pc \in {"fuehren", "anlegen"}
    <2>1. NachrichtStimmt(m) /\ lauf[r].pc \in {"fuehren", "anlegen"}
      BY DEF PruefeErneut, LegeAn, NachrichtInv, NachrichtStimmt
    <2>2. Betrifft(r, m)
      BY <1>1, <2>1 DEF Betrifft, AmWerk
    <2> QED
      BY <2>1, <2>2, BetrifftFrei
  <1>3. PICK z : /\ Pruefbar(m, z)
                 /\ PlaneZustellungEin(m, z) \/ StelleZurueck(m, z)
                 /\ UNCHANGED <<cms, umwelt, lease, meldungen, zaehler>>
                 /\ WeiterMit(r, MeldungAus(zeile'[m]),
                              zeile'[m].status # "ZURUECKGESTELLT")
    <2>1. CASE PruefeErneut(r)
      <3>1. PICK z : z = zeile[m]
        OBVIOUS
      <3>2. z.status = "ZURUECKGESTELLT" /\ PruefeUndSchreibe(r, z)
        BY <1>1, <2>1, <3>1
           DEF PruefeErneut, PruefeUndSchreibe, PlaneZustellungEin, StelleZurueck
      <3>3. Pruefbar(m, z)
        <4>1. z # KeineZeile /\ z \in ZeileTyp /\ ~ z.gemeldet
          BY <3>1, <3>2, ZeileFacts DEF ZeileOK, Offen
        <4> QED
          BY <1>2, <3>1, <3>2, <4>1
             DEF Pruefbar, NachrichtStimmt, MitZeile, Offen, Geschlossen
      <3> QED
        BY <1>1, <3>2, <3>3 DEF PruefeUndSchreibe, WeiterMit
    <2>2. CASE LegeAn(r)
      <3>1. zeile[m] = KeineZeile /\ PruefeUndSchreibe(r, NeueZeile)
        BY <1>1, <2>2 DEF LegeAn, Konflikt
      <3>2. /\ NeueZeile \in ZeileTyp /\ NeueZeile.status = "ZURUECKGESTELLT"
            /\ ~ NeueZeile.gemeldet /\ ~ NeueZeile.hinweis
        BY DEF NeueZeile, ZeileTyp, Status, Gruende
      <3>3. Pruefbar(m, NeueZeile)
        BY <1>2, <3>1, <3>2, ZeileFacts
           DEF Pruefbar, NachrichtStimmt, OhneZeile, Frei, Geschlossen
      <3> QED
        BY <1>1, <3>1, <3>3 DEF PruefeUndSchreibe, WeiterMit
    <2> QED
      BY <2>1, <2>2
  <1> QED
    BY <1>1, <1>2, <1>3, Plant, StelltZurueck

(* melde: what arrives, or gets lost on the way, is what the row says.      *)
LEMMA SchrittMeldet ==
  ASSUME TypeInv, NachrichtInv, LaufInv, NEW r \in Laeufe,
         Melde(r) \/ MeldeScheitert(r)
  PROVE  ZustellungInv'
  <1>1. PICK m \in Nachrichten : m = lauf[r].n
    BY DEF Melde, MeldeScheitert, LaufInv, LaufStimmt, AmWerk
  <1>2. PICK M : M = lauf[r].meldung
    OBVIOUS
  <1>3. /\ zeile[m].status \in Geschlossen /\ M = MeldungAus(zeile[m])
        /\ lauf[r].pc = "melden"
    BY <1>1, <1>2 DEF Melde, MeldeScheitert, LaufInv, LaufStimmt
  <1>4. /\ zeile[m] # KeineZeile /\ ZeileOK(m, zeile[m])
        /\ NachrichtStimmt(m) /\ M \in Meldungen
    <2>1. zeile[m].status # "FEHLT" /\ ZeileOK(m, zeile[m])
      BY <1>3, ZeileFacts DEF Geschlossen
    <2> QED
      BY <1>3, <2>1, ZeileFacts, MeldungFacts DEF NachrichtInv, NachrichtStimmt
  <1>5. cms[m] \in Meldungen => cms[m] = M
    BY <1>3, <1>4 DEF NachrichtStimmt, MitZeile
  <1>6. PICK c : /\ cms' = [cms EXCEPT ![m] = c]
                 /\ c \in {cms[m], M} /\ (cms[m] = M => c = M)
                 /\ Melde(r) => c = M
    <2>1. Angekommen(m, M) = M
      BY <1>5 DEF Angekommen
    <2>2. cms' = [cms EXCEPT ![m] = M] \/ (UNCHANGED cms /\ MeldeScheitert(r))
      BY <1>1, <1>2, <2>1 DEF Melde, MeldeScheitert
    <2>3. CASE UNCHANGED cms /\ ~ Melde(r)
      BY <2>3 DEF TypeInv, TypeOK
    <2>4. CASE cms' = [cms EXCEPT ![m] = M]
      BY <2>4
    <2>5. Melde(r) => cms' = [cms EXCEPT ![m] = M]
      BY <1>1, <1>2, <2>1 DEF Melde
    <2> QED
      BY <2>2, <2>3, <2>4, <2>5
  <1>7. PICK pc \in {"vermerken", "naechste"} :
          /\ lauf' = [lauf EXCEPT ![r].pc = pc, ![r].meldung = KeineMeldung]
          /\ pc = "vermerken" => Melde(r)
    BY DEF Melde, MeldeScheitert, NachFehler
  <1>8. /\ meldungen' = [meldungen EXCEPT ![m] = @ \union {M}]
        /\ UNCHANGED <<umwelt, zeile, auftrag, lease, spur, zugegangen>>
    BY <1>1, <1>2 DEF Melde, MeldeScheitert
  <1> DEFINE l == [lauf[r] EXCEPT !.pc = pc, !.meldung = KeineMeldung]
  <1>9. l \in LaufTyp /\ l.pc = pc /\ l.n = m /\ l.liste = lauf[r].liste
    BY <1>1, LaufFacts DEF LaufTyp
  <1>10. lauf' = [lauf EXCEPT ![r] = l]
    BY <1>7, LaufFacts DEF LaufTyp
  <1> HIDE DEF l
  <1>11. /\ lauf' \in [Laeufe -> LaufTyp] /\ lauf'[r] = l
         /\ \A q \in Laeufe \ {r} : lauf'[q] = lauf[q]
    BY <1>9, <1>10, LaufFacts
  <1>12. /\ cms' \in [Nachrichten -> Meldungen \union {"OFFEN", "VERWORFEN"}]
         /\ cms'[m] = c /\ \A k \in Nachrichten \ {m} : cms'[k] = cms[k]
    BY <1>4, <1>6, ZeileFacts DEF TypeInv, TypeOK
  <1>13. /\ meldungen' \in [Nachrichten -> SUBSET Meldungen]
         /\ meldungen'[m] = meldungen[m] \union {M}
         /\ \A k \in Nachrichten \ {m} : meldungen'[k] = meldungen[k]
    BY <1>4, <1>8 DEF TypeInv
  <1>14. TypeInv'
    BY <1>8, <1>11, <1>12, <1>13 DEF TypeInv, TypeOK, umwelt, spur, LaufTyp
  <1>15. \A q \in Laeufe : \A k : Betrifft(q, k)' => Betrifft(q, k)
    <2>1. lauf[r].pc \in AmWerk /\ lauf'[r].liste \subseteq lauf[r].liste
          /\ lauf'[r].n = lauf[r].n
      BY <1>1, <1>3, <1>9, <1>11 DEF AmWerk
    <2> QED
      BY <1>11, <2>1, WeiterBetrifft
  <1>16. NachrichtStimmt(m)'
    <2>1. M = "ZUGESTELLT" => zeile[m].status = "ANGENOMMEN"
      <3>1. "ZUGESTELLT" \notin Unzustellbar
        BY Meldungsliste
      <3> QED
        BY <1>3, <1>4, <3>1, MeldungFacts DEF Geschlossen
    <2>2. MitZeile(m)'
      BY <1>3, <1>4, <1>5, <1>6, <1>8, <1>12, <1>13, <1>15
         DEF NachrichtStimmt, MitZeile, Unberuehrt, Offen, Geschlossen, spur
    <2>3. AuftragStimmt(m)'
      BY <1>4, <1>8 DEF NachrichtStimmt, AuftragStimmt
    <2>4. CmsStimmt(m)'
      BY <1>3, <1>4, <1>6, <1>8, <1>12, <2>1
         DEF NachrichtStimmt, MitZeile, CmsStimmt
    <2> QED
      BY <1>4, <1>8, <2>2, <2>3, <2>4 DEF NachrichtStimmt, OhneZeile
  <1>17. NachrichtInv'
    <2>1. \A k \in Nachrichten \ {m} :
            /\ zeile'[k] = zeile[k] /\ cms'[k] = cms[k] /\ auftrag'[k] = auftrag[k]
            /\ eingeplant'[k] = eingeplant[k] /\ hinweise'[k] = hinweise[k]
            /\ meldungen'[k] = meldungen[k]
            /\ k \in zugegangen' <=> k \in zugegangen
      BY <1>8, <1>12, <1>13 DEF spur
    <2> QED
      BY <1>15, <1>16, <2>1, EineNachricht
  <1>18. LaufInv'
    <2>1. LaufStimmt(r)'
      BY <1>1, <1>3, <1>6, <1>7, <1>8, <1>9, <1>11, <1>12 DEF LaufStimmt, AmWerk
    <2>2. \A k \in Nachrichten : cms[k] \in Meldungen => cms'[k] = cms[k]
      BY <1>5, <1>6, <1>12
    <2>3. \A k \in Nachrichten : zeile'[k] = zeile[k]
      BY <1>8
    <2> QED
      BY <1>11, <2>1, <2>2, <2>3, AlleLaeufe
  <1> QED
    BY <1>14, <1>17, <1>18 DEF ZustellungInv

(* gemeldet_am: the row bears the mark once the Tax-CMS has what it says.   *)
LEMMA SchrittVermerkt ==
  ASSUME TypeInv, NachrichtInv, LaufInv, NEW r \in Laeufe, Vermerke(r)
  PROVE  ZustellungInv'
  <1>1. PICK m \in Nachrichten : m = lauf[r].n
    BY DEF Vermerke, LaufInv, LaufStimmt, AmWerk
  <1>2. /\ zeile[m].status \in Geschlossen /\ cms[m] = MeldungAus(zeile[m])
        /\ lauf[r].pc = "vermerken"
    BY <1>1 DEF Vermerke, LaufInv, LaufStimmt
  <1>3. /\ zeile[m] # KeineZeile /\ ZeileOK(m, zeile[m]) /\ zeile[m] \in ZeileTyp
        /\ NachrichtStimmt(m)
    BY <1>2, ZeileFacts DEF Geschlossen, NachrichtInv, NachrichtStimmt
  <1> DEFINE g == [zeile[m] EXCEPT !.gemeldet = TRUE, !.alt = FALSE]
             l == [lauf[r] EXCEPT !.pc = "naechste", !.n = 0]
  <1>4. /\ g \in ZeileTyp /\ g.status = zeile[m].status /\ g.grund = zeile[m].grund
        /\ g.hinweis = zeile[m].hinweis /\ g.gemeldet /\ ~ g.alt
    BY <1>3 DEF ZeileTyp
  <1>5. l \in LaufTyp /\ l.pc = "naechste" /\ l.liste = lauf[r].liste
    BY LaufFacts DEF LaufTyp
  <1>6. lauf' = [lauf EXCEPT ![r] = l]
    BY LaufFacts DEF LaufTyp, Vermerke
  <1>7. UNCHANGED zeile \/ zeile' = [zeile EXCEPT ![m] = g]
    BY <1>1, <1>3 DEF Vermerke, TypeInv, ZeileTyp
  <1>8. UNCHANGED <<cms, umwelt, auftrag, lease, spur, zugegangen, meldungen>>
    BY DEF Vermerke
  <1> HIDE DEF g, l
  <1>9. /\ lauf' \in [Laeufe -> LaufTyp] /\ lauf'[r] = l
        /\ \A q \in Laeufe \ {r} : lauf'[q] = lauf[q]
    BY <1>5, <1>6, LaufFacts
  <1>10. \A q \in Laeufe : \A k : Betrifft(q, k)' => Betrifft(q, k)
    <2>1. /\ lauf[r].pc \in AmWerk /\ lauf'[r].liste \subseteq lauf[r].liste
          /\ lauf'[r].pc \notin AmWerk
      BY <1>2, <1>5, <1>9 DEF AmWerk
    <2> QED
      BY <1>9, <2>1, WeiterBetrifft
  <1>11. LaufStimmt(r)'
    BY <1>5, <1>9 DEF LaufStimmt, AmWerk
  <1>12. CASE UNCHANGED zeile
    BY <1>8, <1>9, <1>10, <1>11, <1>12, NurLauf, LeaseFacts
  <1>13. CASE zeile' = [zeile EXCEPT ![m] = g]
    <2>1. /\ zeile'[m] = g /\ g # KeineZeile
          /\ \A k \in Nachrichten \ {m} : zeile'[k] = zeile[k]
      <3>1. KeineZeile.status = "FEHLT"
        BY DEF KeineZeile
      <3> QED
        BY <1>2, <1>4, <1>13, <3>1 DEF TypeInv, Geschlossen
    <2>2. ZeileOK(m, g)
      BY <1>2, <1>3, <1>4 DEF ZeileOK, Geschlossen, Offen
    <2>3. TypeInv'
      <3>1. /\ auftrag' \in [Nachrichten -> DOMAIN Abschluss \union
                                             {"QUEUED", "PROVIDER_ACCEPTED"}]
            /\ eingeplant' \in [Nachrichten -> Nat] /\ hinweise' \in [Nachrichten -> Nat]
            /\ zugegangen' \in SUBSET Nachrichten
        BY <1>8 DEF TypeInv, TypeOK, spur
      <3> QED
        BY <1>8, <1>9, <1>13, <2>2, <3>1, NeueZeileTyp
    <2>4. NachrichtStimmt(m)'
      <3>1. MeldungAus(g) = MeldungAus(zeile[m])
        BY <1>4 DEF MeldungAus
      <3>2. MitZeile(m)'
        BY <1>2, <1>3, <1>4, <1>8, <2>1, <3>1
           DEF NachrichtStimmt, MitZeile, Unberuehrt, Offen, Geschlossen, spur
      <3>3. AuftragStimmt(m)' /\ CmsStimmt(m)'
        BY <1>3, <1>4, <1>8, <2>1 DEF NachrichtStimmt, AuftragStimmt, CmsStimmt
      <3> QED
        BY <2>1, <3>2, <3>3 DEF NachrichtStimmt, OhneZeile
    <2>5. NachrichtInv'
      <3>1. \A k \in Nachrichten \ {m} :
              /\ zeile'[k] = zeile[k] /\ cms'[k] = cms[k] /\ auftrag'[k] = auftrag[k]
              /\ eingeplant'[k] = eingeplant[k] /\ hinweise'[k] = hinweise[k]
              /\ meldungen'[k] = meldungen[k]
              /\ k \in zugegangen' <=> k \in zugegangen
        BY <1>8, <2>1 DEF spur
      <3> QED
        BY <1>10, <2>4, <3>1, EineNachricht
    <2>6. LaufInv'
      <3>1. \A k \in Nachrichten : zeile'[k].status = zeile[k].status
                                   /\ zeile'[k].grund = zeile[k].grund
        BY <1>4, <2>1
      <3> QED
        BY <1>8, <1>9, <1>11, <3>1, AlleLaeufe
    <2> QED
      BY <2>3, <2>5, <2>6 DEF ZustellungInv
  <1> QED
    BY <1>7, <1>12, <1>13

(* bereinige: the rows that go are those nobody comes back to.              *)
LEMMA SchrittBereinigt ==
  ASSUME TypeInv, NachrichtInv, LaufInv, NEW r \in Laeufe, Bereinige(r)
  PROVE  ZustellungInv'
  <1>1. /\ lauf[r].pc = "naechste" /\ lauf' = [lauf EXCEPT ![r].pc = "freigeben"]
        /\ UNCHANGED <<cms, umwelt, auftrag, lease, eingeplant, zugegangen, meldungen>>
    BY DEF Bereinige
  <1>2. /\ DOMAIN zeile' = Nachrichten /\ DOMAIN hinweise' = Nachrichten
        /\ \A m \in Nachrichten :
             /\ Veraltet(m) => zeile'[m] = KeineZeile /\ hinweise'[m] = 0
             /\ ~ Veraltet(m) => zeile'[m] = zeile[m] /\ hinweise'[m] = hinweise[m]
    BY DEF Bereinige
  <1> DEFINE l == [lauf[r] EXCEPT !.pc = "freigeben"]
  <1>3. l \in LaufTyp /\ l.pc = "freigeben" /\ l.liste = lauf[r].liste
    BY LaufFacts DEF LaufTyp
  <1>4. lauf' = [lauf EXCEPT ![r] = l]
    BY <1>1, LaufFacts DEF LaufTyp
  <1> HIDE DEF l
  <1>5. /\ lauf' \in [Laeufe -> LaufTyp] /\ lauf'[r] = l
        /\ \A q \in Laeufe \ {r} : lauf'[q] = lauf[q]
    BY <1>3, <1>4, LaufFacts
  <1>6. \A q \in Laeufe : \A k : Betrifft(q, k)' => Betrifft(q, k)
    BY <1>1, <1>3, <1>5 DEF Betrifft, AmWerk
  <1>7. \A m \in Nachrichten : Veraltet(m) /\ zeile[m].status # "ZURUECKGESTELLT" =>
          /\ zeile[m].gemeldet /\ cms[m] = MeldungAus(zeile[m])
          /\ zeile[m].status \in Geschlossen
          /\ \A q \in Laeufe : ~ Betrifft(q, m)
    BY ZeileFacts DEF Veraltet, NachrichtInv, MitZeile, ZeileOK, ZeileTyp, Status, Offen,
                      Geschlossen
  <1>8. TypeInv'
    <2>1. \A k \in Nachrichten : ZeileOK(k, zeile'[k])
      BY <1>2, ZeileFacts DEF ZeileOK
    <2>2. hinweise' \in [Nachrichten -> Nat]
      <3>1. \A k \in Nachrichten : hinweise'[k] \in Nat
        BY <1>2, ZeileFacts
      <3>2. hinweise' = [m \in Nachrichten |-> IF Veraltet(m) THEN 0 ELSE hinweise[m]]
        BY DEF Bereinige
      <3> QED
        BY <3>1, <3>2
    <2>3. TypeOK'
      BY <1>1, <1>2, <1>5, <2>1 DEF TypeInv, TypeOK, ZeileOK, ZeileTyp, LaufTyp
    <2> QED
      BY <1>1, <1>2, <2>2, <2>3 DEF TypeInv, umwelt
  <1>9. NachrichtInv'
    <2> SUFFICES ASSUME NEW m \in Nachrichten PROVE NachrichtStimmt(m)'
      BY DEF NachrichtInv, NachrichtStimmt
    <2>1. NachrichtStimmt(m)
      BY DEF NachrichtInv, NachrichtStimmt
    <2>2. CASE ~ Veraltet(m)
      BY <1>1, <1>2, <1>6, <2>1, <2>2, NachrichtBleibt
    <2>3. CASE Veraltet(m) /\ zeile[m].status = "ZURUECKGESTELLT"
      <3>1. /\ Unberuehrt(m)' /\ meldungen'[m] = {} /\ cms'[m] \notin Meldungen
            /\ auftrag'[m] = "KEINER"
        BY <1>1, <2>1, <2>3 DEF NachrichtStimmt, MitZeile, Veraltet, Unberuehrt, Offen
      <3>2. OhneZeile(m)' /\ MitZeile(m)'
        BY <1>2, <2>3, <3>1 DEF OhneZeile, MitZeile
      <3>3. AuftragStimmt(m)' /\ CmsStimmt(m)'
        BY <3>1, Meldungsliste DEF AuftragStimmt, CmsStimmt, Beschuldigt
      <3> QED
        BY <3>2, <3>3 DEF NachrichtStimmt
    <2>4. CASE Veraltet(m) /\ zeile[m].status # "ZURUECKGESTELLT"
      <3>1. /\ zeile[m].gemeldet /\ cms[m] = MeldungAus(zeile[m])
            /\ zeile[m].status \in Geschlossen /\ cms[m] \in Meldungen
            /\ \A q \in Laeufe : ~ Betrifft(q, m)
        BY <1>7, <2>4, ZeileFacts, MeldungFacts
      <3>2. /\ meldungen[m] \subseteq {cms[m]} /\ auftrag[m] # "QUEUED"
            /\ eingeplant[m] <= 1
        BY <2>1, <2>4, <3>1
           DEF NachrichtStimmt, MitZeile, Veraltet, Geschlossen, Unberuehrt
      <3>3. OhneZeile(m)' /\ MitZeile(m)'
        BY <1>1, <1>2, <1>6, <2>4, <3>1, <3>2 DEF OhneZeile, MitZeile
      <3>4. AuftragStimmt(m)' /\ CmsStimmt(m)'
        BY <1>1, <2>1, <3>2 DEF NachrichtStimmt, AuftragStimmt, CmsStimmt
      <3> QED
        BY <3>3, <3>4 DEF NachrichtStimmt
    <2> QED
      BY <2>2, <2>3, <2>4
  <1>10. LaufInv'
    <2>1. LaufStimmt(r)'
      BY <1>3, <1>5 DEF LaufStimmt, AmWerk
    <2>2. \A k \in Nachrichten : zeile[k].status \in Geschlossen =>
            \/ zeile'[k].status = zeile[k].status /\ zeile'[k].grund = zeile[k].grund
            \/ \A q \in Laeufe : ~ Betrifft(q, k)
      BY <1>2, <1>7 DEF Geschlossen
    <2> QED
      BY <1>1, <1>5, <2>1, <2>2, AlleLaeufe
  <1> QED
    BY <1>8, <1>9, <1>10 DEF ZustellungInv

-----------------------------------------------------------------------------
(* Steps of the environment                                                 *)

(* Steps that change neither a message nor a run.                           *)
LEMMA NurUmwelt ==
  ASSUME TypeInv, NachrichtInv, LaufInv, TypeInv',
         UNCHANGED <<cms, zeile, auftrag, lauf, spur, zugegangen, meldungen>>
  PROVE  ZustellungInv'
  <1>1. \A q \in Laeufe : \A k : Betrifft(q, k)' => Betrifft(q, k)
    BY DEF Betrifft
  <1>2. NachrichtInv'
    <2> SUFFICES ASSUME NEW m \in Nachrichten PROVE NachrichtStimmt(m)'
      BY DEF NachrichtInv, NachrichtStimmt
    <2>1. NachrichtStimmt(m)
      BY DEF NachrichtInv, NachrichtStimmt
    <2> QED
      BY <1>1, <2>1, NachrichtBleibt DEF spur
  <1>3. LaufInv'
    BY AlleLaeufe
  <1> QED
    BY <1>2, <1>3 DEF ZustellungInv

LEMMA SchrittUmwelt ==
  ASSUME TypeInv, NachrichtInv, LaufInv,
         \/ LeaseLaeuftAb
         \/ \E m \in Nachrichten : EmpfaengerAendert(m) \/ FensterEndet(m)
         \/ UNCHANGED vars
  PROVE  ZustellungInv'
  <1>1. UNCHANGED <<cms, zeile, auftrag, lauf, spur, zugegangen, meldungen>>
    BY DEF LeaseLaeuftAb, EmpfaengerAendert, FensterEndet, vars
  <1>2. lease' \in [halter : Laeufe \union {Niemand}, gueltig : BOOLEAN]
    BY DEF LeaseLaeuftAb, EmpfaengerAendert, FensterEndet, vars, TypeInv, TypeOK
  <1>3. /\ DOMAIN empfaenger' = Nachrichten
        /\ \A k \in Nachrichten : empfaenger'[k] \in Befund(k)
    BY DEF LeaseLaeuftAb, EmpfaengerAendert, FensterEndet, vars, umwelt, TypeInv
  <1>4. TypeInv'
    BY <1>1, <1>2, <1>3 DEF TypeInv, TypeOK, spur
  <1> QED
    BY <1>1, <1>4, NurUmwelt

(* Steps that change one message, and of its row neither status nor reason. *)
LEMMA EineUmwelt ==
  ASSUME TypeInv, NachrichtInv, LaufInv, TypeInv', NEW m \in Nachrichten,
         \A k \in Nachrichten \ {m} :
           /\ zeile'[k] = zeile[k] /\ cms'[k] = cms[k] /\ auftrag'[k] = auftrag[k]
           /\ eingeplant'[k] = eingeplant[k] /\ hinweise'[k] = hinweise[k]
           /\ meldungen'[k] = meldungen[k]
           /\ k \in zugegangen' <=> k \in zugegangen,
         zeile'[m].status = zeile[m].status, zeile'[m].grund = zeile[m].grund,
         cms[m] \in Meldungen => cms'[m] = cms[m],
         UNCHANGED lauf, NachrichtStimmt(m)'
  PROVE  ZustellungInv'
  <1>1. \A q \in Laeufe : \A k : Betrifft(q, k)' => Betrifft(q, k)
    BY DEF Betrifft
  <1>2. NachrichtInv'
    BY <1>1, EineNachricht
  <1>3. /\ \A k \in Nachrichten : /\ zeile'[k].status = zeile[k].status
                                  /\ zeile'[k].grund = zeile[k].grund
        /\ \A k \in Nachrichten : cms[k] \in Meldungen => cms'[k] = cms[k]
    OBVIOUS
  <1>4. LaufInv'
    BY <1>3, AlleLaeufe
  <1> QED
    BY <1>2, <1>4 DEF ZustellungInv

LEMMA SchrittNachricht ==
  ASSUME TypeInv, NachrichtInv, LaufInv, NEW m \in Nachrichten,
         Versand(m) \/ Verwirf(m) \/ FristEndet(m)
  PROVE  ZustellungInv'
  <1>1. NachrichtStimmt(m)
    BY DEF NachrichtInv, NachrichtStimmt
  <1>2. \A q \in Laeufe : \A k : Betrifft(q, k)' => Betrifft(q, k)
    BY DEF Betrifft, Versand, Verwirf, FristEndet
  <1>3. CASE Versand(m)
    <2>1. /\ zeile[m] # KeineZeile /\ zeile[m].status = "EINGEPLANT"
          /\ m \notin zugegangen /\ cms[m] \notin Meldungen
      BY <1>1, <1>3
         DEF Versand, NachrichtStimmt, AuftragStimmt, MitZeile, Offen
    <2>2. PICK a \in {"PROVIDER_ACCEPTED"} \union DOMAIN Abschluss :
            /\ auftrag' = [auftrag EXCEPT ![m] = a]
            /\ \/ a # "PROVIDER_ACCEPTED" /\ UNCHANGED zugegangen
               \/ /\ a \in {"PROVIDER_ACCEPTED", "UNKNOWN"}
                  /\ zugegangen' = zugegangen \union {m}
      BY <1>3, Gruendliste DEF Versand, Ausgaenge
    <2>3. UNCHANGED <<cms, umwelt, zeile, lease, lauf, spur, meldungen>>
      BY <1>3 DEF Versand
    <2>4. /\ auftrag' \in [Nachrichten -> DOMAIN Abschluss \union
                                           {"QUEUED", "PROVIDER_ACCEPTED"}]
          /\ auftrag'[m] = a /\ a # "QUEUED"
          /\ \A k \in Nachrichten \ {m} : auftrag'[k] = auftrag[k]
          /\ zugegangen' \in SUBSET Nachrichten
          /\ \A k \in Nachrichten \ {m} : k \in zugegangen' <=> k \in zugegangen
      BY <2>2, Gruendliste DEF TypeInv, TypeOK
    <2>5. TypeInv'
      BY <2>3, <2>4 DEF TypeInv, TypeOK, umwelt, spur
    <2>6. MitZeile(m)'
      BY <1>1, <1>2, <2>1, <2>3 DEF NachrichtStimmt, MitZeile, Geschlossen, Offen, spur
    <2>7. AuftragStimmt(m)'
      BY <2>1, <2>2, <2>4 DEF AuftragStimmt
    <2>8. CmsStimmt(m)'
      BY <2>1, <2>3, Meldungsliste DEF CmsStimmt, Beschuldigt
    <2>9. NachrichtStimmt(m)'
      BY <2>1, <2>3, <2>6, <2>7, <2>8 DEF NachrichtStimmt, OhneZeile
    <2> QED
      BY <2>3, <2>4, <2>5, <2>9, EineUmwelt DEF spur
  <1>4. CASE Verwirf(m)
    <2>1. /\ cms[m] = "OFFEN" /\ cms' = [cms EXCEPT ![m] = "VERWORFEN"]
          /\ UNCHANGED <<umwelt, zeile, auftrag, lease, lauf, spur, zugegangen, meldungen>>
      BY <1>4 DEF Verwirf
    <2>2. /\ cms' \in [Nachrichten -> Meldungen \union {"OFFEN", "VERWORFEN"}]
          /\ cms'[m] = "VERWORFEN" /\ \A k \in Nachrichten \ {m} : cms'[k] = cms[k]
      BY <2>1 DEF TypeInv, TypeOK
    <2>3. {"OFFEN", "VERWORFEN"} \intersect Meldungen = {}
      BY Meldungsliste
    <2>4. TypeInv'
      BY <2>1, <2>2 DEF TypeInv, TypeOK, umwelt, spur
    <2>5. zeile[m] # KeineZeile => ~ zeile[m].gemeldet
      <3> SUFFICES ASSUME zeile[m] # KeineZeile, zeile[m].gemeldet PROVE FALSE
        OBVIOUS
      <3>1. zeile[m].status \in Geschlossen
        BY ZeileFacts DEF ZeileOK, Status, Offen, Geschlossen, ZeileTyp
      <3>2. cms[m] \in Meldungen
        BY <1>1, <3>1, ZeileFacts, MeldungFacts DEF NachrichtStimmt, MitZeile
      <3> QED
        BY <2>1, <2>3, <3>2
    <2>6. OhneZeile(m)'
      BY <1>1, <2>1, <2>2, <2>3 DEF NachrichtStimmt, OhneZeile, Unberuehrt, spur
    <2>7. MitZeile(m)'
      BY <1>1, <1>2, <2>1, <2>2, <2>3, <2>5
         DEF NachrichtStimmt, MitZeile, Unberuehrt, spur
    <2>8. AuftragStimmt(m)' /\ CmsStimmt(m)'
      BY <1>1, <2>1, <2>2, <2>3, Meldungsliste
         DEF NachrichtStimmt, AuftragStimmt, CmsStimmt, Beschuldigt
    <2> QED
      BY <2>1, <2>2, <2>3, <2>4, <2>6, <2>7, <2>8, EineUmwelt DEF NachrichtStimmt, spur
  <1>5. CASE FristEndet(m)
    <2> DEFINE f == [zeile[m] EXCEPT !.frist = TRUE]
    <2>1. /\ zeile[m].status = "ZURUECKGESTELLT" /\ zeile' = [zeile EXCEPT ![m] = f]
          /\ UNCHANGED <<cms, umwelt, auftrag, lease, lauf, spur, zugegangen, meldungen>>
      BY <1>5 DEF FristEndet, TypeInv
    <2>2. /\ ZeileOK(m, zeile[m]) /\ zeile[m] # KeineZeile /\ zeile[m] \in ZeileTyp
          /\ ~ zeile[m].gemeldet
      BY <2>1, ZeileFacts DEF ZeileOK, Offen
    <2>3. /\ f \in ZeileTyp /\ f.status = zeile[m].status /\ f.grund = zeile[m].grund
          /\ f.hinweis = zeile[m].hinweis /\ f.gemeldet = zeile[m].gemeldet
          /\ f.alt = zeile[m].alt
      BY <2>2 DEF ZeileTyp
    <2> HIDE DEF f
    <2>4. /\ zeile'[m] = f /\ f # KeineZeile
          /\ \A k \in Nachrichten \ {m} : zeile'[k] = zeile[k]
      <3>1. KeineZeile.status = "FEHLT"
        BY DEF KeineZeile
      <3> QED
        BY <2>1, <2>3, <3>1 DEF TypeInv
    <2>5. ZeileOK(m, f)
      BY <2>2, <2>3 DEF ZeileOK
    <2>6. /\ auftrag' \in [Nachrichten -> DOMAIN Abschluss \union
                                           {"QUEUED", "PROVIDER_ACCEPTED"}]
          /\ lauf' \in [Laeufe -> LaufTyp]
          /\ eingeplant' \in [Nachrichten -> Nat] /\ hinweise' \in [Nachrichten -> Nat]
          /\ zugegangen' \in SUBSET Nachrichten
      BY <2>1 DEF TypeInv, TypeOK, spur, LaufTyp
    <2>7. TypeInv'
      <3>1. PICK z : z = f
        OBVIOUS
      <3>2. ZeileOK(m, z) /\ zeile' = [zeile EXCEPT ![m] = z]
            /\ UNCHANGED <<cms, umwelt, lease>> /\ UNCHANGED meldungen
        BY <2>1, <2>5, <3>1
      <3> QED
        BY <2>6, <3>2, NeueZeileTyp
    <2>8. MitZeile(m)'
      BY <1>1, <1>2, <2>1, <2>2, <2>3, <2>4
         DEF NachrichtStimmt, MitZeile, Unberuehrt, Geschlossen, Offen, spur
    <2>9. AuftragStimmt(m)' /\ CmsStimmt(m)'
      BY <1>1, <2>1, <2>3, <2>4 DEF NachrichtStimmt, AuftragStimmt, CmsStimmt
    <2> QED
      BY <2>1, <2>3, <2>4, <2>7, <2>8, <2>9, EineUmwelt
         DEF NachrichtStimmt, OhneZeile, spur
  <1> QED
    BY <1>3, <1>4, <1>5

(* A month goes by while no run is under way.                               *)
LEMMA SchrittMonat ==
  ASSUME TypeInv, NachrichtInv, LaufInv, Monat
  PROVE  ZustellungInv'
  <1>1. UNCHANGED <<cms, empfaenger, lease, lauf, spur, zugegangen, meldungen>>
    BY DEF Monat
  <1>2. \A q \in Laeufe : \A m : ~ Betrifft(q, m) /\ ~ Betrifft(q, m)'
    BY <1>1, RuhtTyp DEF Monat, LaufInv, LaufStimmt, Betrifft, AmWerk
  <1>3. DOMAIN zeile' = Nachrichten /\ \A m \in Nachrichten : zeile'[m] = Altert(m)
    BY DEF Monat
  <1>4. \A m \in Nachrichten :
          /\ zeile[m] = KeineZeile => zeile'[m] = KeineZeile
          /\ zeile[m] # KeineZeile =>
               /\ zeile'[m] # KeineZeile /\ zeile'[m] \in ZeileTyp
               /\ zeile'[m].status = zeile[m].status /\ zeile'[m].grund = zeile[m].grund
               /\ zeile'[m].hinweis = zeile[m].hinweis
               /\ zeile'[m].gemeldet = zeile[m].gemeldet
               /\ zeile'[m].alt =>
                    zeile[m].alt \/ zeile[m].gemeldet \/ zeile[m].status = "ZURUECKGESTELLT"
    <2> SUFFICES ASSUME NEW m \in Nachrichten, zeile[m] # KeineZeile
                 PROVE  /\ zeile'[m] # KeineZeile /\ zeile'[m] \in ZeileTyp
                        /\ zeile'[m].status = zeile[m].status
                        /\ zeile'[m].grund = zeile[m].grund
                        /\ zeile'[m].hinweis = zeile[m].hinweis
                        /\ zeile'[m].gemeldet = zeile[m].gemeldet
                        /\ zeile'[m].alt => \/ zeile[m].alt \/ zeile[m].gemeldet
                                            \/ zeile[m].status = "ZURUECKGESTELLT"
      BY <1>3 DEF Altert
    <2> DEFINE f == (zeile[m].frist \/ m \in Kanzlei)
               z == [zeile[m] EXCEPT !.alt = TRUE, !.frist = f]
    <2>1. zeile[m] \in ZeileTyp /\ zeile[m].status # "FEHLT"
      BY ZeileFacts
    <2>2. f \in BOOLEAN
      OBVIOUS
    <2>3. /\ z \in ZeileTyp /\ z.status = zeile[m].status /\ z.grund = zeile[m].grund
          /\ z.hinweis = zeile[m].hinweis /\ z.gemeldet = zeile[m].gemeldet
      <3> HIDE DEF f
      <3> QED
        BY <2>1, <2>2 DEF ZeileTyp
    <2>4. \/ zeile'[m] = zeile[m]
          \/ zeile'[m] = z /\ (zeile[m].gemeldet \/ zeile[m].status = "ZURUECKGESTELLT")
      BY <1>3, <2>1 DEF Altert, ZeileTyp
    <2> HIDE DEF z
    <2>5. KeineZeile.status = "FEHLT"
      BY DEF KeineZeile
    <2> QED
      BY <2>1, <2>3, <2>4, <2>5
  <1>5. /\ auftrag' \in [Nachrichten -> DOMAIN Abschluss \union
                                         {"QUEUED", "PROVIDER_ACCEPTED"}]
        /\ \A m \in Nachrichten :
             \/ auftrag'[m] = auftrag[m]
             \/ auftrag'[m] = "KEINER" /\ auftrag[m] # "QUEUED"
    BY Gruendliste DEF Monat, TypeInv, TypeOK
  <1>6. TypeInv'
    <2>1. \A m \in Nachrichten : ZeileOK(m, zeile'[m])
      BY <1>4, ZeileFacts DEF ZeileOK
    <2>2. TypeOK'
      BY <1>1, <1>5, <2>1 DEF TypeInv, TypeOK, ZeileOK, ZeileTyp
    <2> QED
      BY <1>1, <1>3, <2>2 DEF TypeInv, spur
  <1>7. NachrichtInv'
    <2> SUFFICES ASSUME NEW m \in Nachrichten PROVE NachrichtStimmt(m)'
      BY DEF NachrichtInv, NachrichtStimmt
    <2>1. NachrichtStimmt(m)
      BY DEF NachrichtInv, NachrichtStimmt
    <2>2. Unberuehrt(m) => Unberuehrt(m)'
      BY <1>1, <1>5 DEF Unberuehrt, spur
    <2>3. OhneZeile(m)'
      BY <1>1, <1>2, <1>4, <1>5, <2>1, <2>2 DEF NachrichtStimmt, OhneZeile, spur
    <2>4. MitZeile(m)'
      <3>1. zeile[m] # KeineZeile => MeldungAus(zeile'[m]) = MeldungAus(zeile[m])
        BY <1>4 DEF MeldungAus
      <3> QED
        BY <1>1, <1>2, <1>4, <1>5, <2>1, <2>2, <3>1 DEF NachrichtStimmt, MitZeile, spur
    <2>5. AuftragStimmt(m)' /\ CmsStimmt(m)'
      BY <1>1, <1>4, <1>5, <2>1 DEF NachrichtStimmt, AuftragStimmt, CmsStimmt
    <2> QED
      BY <2>3, <2>4, <2>5 DEF NachrichtStimmt
  <1>8. LaufInv'
    BY <1>1, <1>2, AlleLaeufe
  <1> QED
    BY <1>6, <1>7, <1>8 DEF ZustellungInv

-----------------------------------------------------------------------------
LEMMA InitZustellung ==
  ASSUME Init
  PROVE  ZustellungInv
  <1>1. TypeInv
    <2>1. Ruht \in LaufTyp
      BY RuhtTyp
    <2>2. "KEINER" \in DOMAIN Abschluss
      BY Gruendliste
    <2> QED
      BY <2>1, <2>2 DEF Init, TypeInv, TypeOK, LaufTyp
  <1>2. NachrichtInv
    BY Meldungsliste
       DEF Init, NachrichtInv, OhneZeile, MitZeile, AuftragStimmt, CmsStimmt,
           Unberuehrt, Beschuldigt
  <1>3. LaufInv
    BY RuhtTyp DEF Init, LaufInv, LaufStimmt, AmWerk
  <1> QED
    BY <1>1, <1>2, <1>3 DEF ZustellungInv

LEMMA SchrittZustellung ==
  ASSUME ZustellungInv, [Next]_vars
  PROVE  ZustellungInv'
  <1> USE DEF ZustellungInv
  <1>1. ASSUME NEW r \in Laeufe, Schritt(r) PROVE ZustellungInv'
    BY <1>1, SchrittLauf, SchrittBleibt, SchrittUebernimmt, SchrittPrueft,
       SchrittMeldet, SchrittVermerkt, SchrittBereinigt DEF Schritt
  <1>2. ASSUME NEW r \in Laeufe, Stoerung(r) PROVE ZustellungInv'
    BY <1>2, SchrittLauf, SchrittBleibt, SchrittMeldet DEF Stoerung
  <1>3. ASSUME NEW m \in Nachrichten, Umwelt(m) PROVE ZustellungInv'
    BY <1>3, SchrittNachricht, SchrittUmwelt DEF Umwelt
  <1>4. CASE LeaseLaeuftAb \/ UNCHANGED vars
    BY <1>4, SchrittUmwelt
  <1>5. CASE Monat
    BY <1>5, SchrittMonat
  <1> QED
    BY <1>1, <1>2, <1>3, <1>4, <1>5 DEF Next

LEMMA ImmerZustellung == Spec => []ZustellungInv
  <1> QED
    BY InitZustellung, SchrittZustellung, PTL DEF Spec

(* The CHECK constraints of the table hold of every row in every state, and *)
(* the state keeps to its types.                                            *)
THEOREM TypeCorrect == Spec => []TypeOK
  <1>1. ZustellungInv => TypeOK
    BY DEF ZustellungInv, TypeInv
  <1> QED
    BY <1>1, ImmerZustellung, PTL

(* However many runs overlap and fail, wherever: of a message comes at most *)
(* one mail order or one notice, and of a row that is put off one notice to *)
(* the admins.                                                              *)
THEOREM NothingPlannedTwice == Spec => []PlannedOnce
  <1>1. ZustellungInv => PlannedOnce
    <2> SUFFICES ASSUME ZustellungInv, NEW m \in Nachrichten
                 PROVE  eingeplant[m] <= 1 /\ hinweise[m] <= 1
      BY DEF PlannedOnce
    <2>1. NachrichtStimmt(m) /\ ZeileOK(m, zeile[m])
      BY ZeileFacts DEF ZustellungInv, NachrichtInv, NachrichtStimmt
    <2> QED
      BY <2>1 DEF NachrichtStimmt, OhneZeile, MitZeile, Unberuehrt
  <1> QED
    BY <1>1, ImmerZustellung, PTL

(* The Tax-CMS is told one thing of a message, and what it holds is so.     *)
THEOREM ReportsAreTrue == Spec => []ReportIsTrue
  <1>1. ZustellungInv => ReportIsTrue
    <2> SUFFICES ASSUME ZustellungInv, NEW m \in Nachrichten
                 PROVE  /\ Cardinality(meldungen[m]) <= 1
                        /\ cms[m] = "ZUGESTELLT" => m \in zugegangen
                        /\ cms[m] \in Unzustellbar \ {"SONSTIGES"} => m \notin zugegangen
                        /\ zeile[m] # KeineZeile /\ zeile[m].gemeldet =>
                             cms[m] = MeldungAus(zeile[m])
      BY DEF ReportIsTrue
    <2>1. NachrichtStimmt(m) /\ TypeInv
      BY DEF ZustellungInv, NachrichtInv, NachrichtStimmt
    <2>2. PICK M : meldungen[m] \subseteq {M}
      <3>1. zeile[m] = KeineZeile => \E M : meldungen[m] \subseteq {M}
        BY <2>1 DEF NachrichtStimmt, OhneZeile
      <3>2. zeile[m] # KeineZeile => zeile[m].status \in Offen \union Geschlossen
        BY <2>1, ZeileFacts DEF ZeileTyp, Status, Offen, Geschlossen
      <3>3. zeile[m] # KeineZeile => \E M : meldungen[m] \subseteq {M}
        BY <2>1, <3>2 DEF NachrichtStimmt, MitZeile
      <3> QED
        BY <3>1, <3>3
    <2>3. Cardinality(meldungen[m]) <= 1
      <3>1. IsFiniteSet({M}) /\ Cardinality({M}) = 1
        BY FS_Singleton
      <3> QED
        BY <2>2, <3>1, FS_Subset
    <2> QED
      BY <2>1, <2>3 DEF NachrichtStimmt, CmsStimmt, MitZeile, Beschuldigt
  <1> QED
    BY <1>1, ImmerZustellung, PTL
===============================================================================
