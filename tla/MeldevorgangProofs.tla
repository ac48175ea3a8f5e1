--------------------------- MODULE MeldevorgangProofs ---------------------------
(***************************************************************************)
(* Theorems about Meldevorgang, for every set of requests and every bound. *)
(* MeldeInv is inductive as it stands.  SentInv is inductive as long as no *)
(* Vorgang begins over attachments that have been sent.                    *)
(***************************************************************************)
EXTENDS MeldevorgangInvariant, TLAPS

LEMMA NullIstKeiner == 0 \notin Vorgaenge /\ Vorgaenge \subseteq Nat
  BY BoundsAssumption DEF Vorgaenge

\* Every request but r is where it was.
NurAnfrage(r) ==
  /\ anfrage' \in [Anfragen -> AnfrageTyp]
  /\ \A q \in Anfragen \ {r} : anfrage'[q] = anfrage[q]

\* Request r is at pc and knows of the rest what it knew.
Geht(r, pc) ==
  /\ NurAnfrage(r)
  /\ anfrage'[r].pc = pc
  /\ anfrage'[r].v = anfrage[r].v /\ anfrage'[r].mit = anfrage[r].mit
  /\ anfrage'[r].erste = anfrage[r].erste /\ anfrage'[r].ausgang = anfrage[r].ausgang
  /\ anfrage'[r].ereignis = anfrage[r].ereignis

Stellen == {"aus", "zaehlt", "beginnt", "loestAuf", "wiederholt", "uebernimmt", "legtAb",
            "raeumt", "ruft", "wartet", "schliesst", "ende"}

LEMMA WeiterGeht ==
  ASSUME TypeInv, NEW r \in Anfragen, NEW pc \in Stellen, Weiter(r, pc)
  PROVE  Geht(r, pc)
<1> DEFINE a == anfrage[r]
<1>1. a \in AnfrageTyp
  BY DEF TypeInv
<1>2. [a EXCEPT !.pc = pc] \in AnfrageTyp
  BY <1>1 DEF AnfrageTyp, Stellen
<1>3. anfrage' = [anfrage EXCEPT ![r] = [a EXCEPT !.pc = pc]]
  BY DEF Weiter
<1>4. NurAnfrage(r) /\ anfrage'[r] = [a EXCEPT !.pc = pc]
  BY <1>2, <1>3 DEF TypeInv, NurAnfrage
<1> QED
  BY <1>1, <1>4 DEF AnfrageTyp, Geht

\* Request r has ended.
Fertig(r) ==
  /\ NurAnfrage(r)
  /\ anfrage'[r].pc = "ende" /\ anfrage'[r].v = anfrage[r].v
  /\ anfrage'[r].erste = FALSE /\ anfrage'[r].ausgang = "keiner"
  /\ anfrage'[r].ereignis = 0

LEMMA EndetFertig ==
  ASSUME TypeInv, NEW r \in Anfragen, Endet(r)
  PROVE  Fertig(r)
  BY DEF TypeInv, AnfrageTyp, Endet, Ruht, Fertig, NurAnfrage

\* What r does leaves Vorgaenge and events alone, and the attachments of the others; the
\* row may change hands.
Hand(r) ==
  /\ zeile' \in ZeileTyp
  /\ zeile'.v = zeile.v /\ zeile'.gesendet = zeile.gesendet
  /\ zeile'.token \in {zeile.token, r, 0}
  /\ zeile.v = 0 => zeile' = zeile
  /\ zeile'.lease => zeile'.token # 0

Leise(r) ==
  /\ NurAnfrage(r)
  /\ post' \in [Anfragen -> {"keine", "unterwegs", "abgelehnt", "abweichung", "angenommen"}]
  /\ \A q \in Anfragen \ {r} : post'[q] = post[q]
  /\ Hand(r)
  /\ anlage' \in [Anfragen -> AnlageTyp]
  /\ \A q \in Anfragen \ {r} : anlage'[q] = anlage[q]
  /\ anlage[r].stand # "keine" => anlage'[r].stand # "keine"
  /\ UNCHANGED <<alter, dienst, kanzlei, spur>>

Sendend(r) == anfrage[r].pc = "ruft" \/ post[r] = "unterwegs"

LEMMA LeiserSchritt ==
  ASSUME MeldeInv, NEW r \in Anfragen, Leise(r),
         Sendend(r)' => zeile'.token = r \/ (Sendend(r) /\ anfrage'[r].v = anfrage[r].v),
         AnfrageStimmt(r)', RufStimmt(r)', AnlageStimmt(r)', ErsterStimmt(r)',
         kanzlei.pc # "ruht" /\ kanzlei.r = r /\ anfrage'[r].pc = "legtAb" =>
           zeile.v # anfrage'[r].v \/ zeile.gesendet
  PROVE  MeldeInv'
<1> USE DEF Leise, dienst, spur, NurAnfrage, Hand
<1> USE AnfragenAssumption
<1>1. TypeInv /\ ZeileInv /\ AnfrageInv /\ EreignisInv /\ RufInv /\ AnlageInv /\ ErsterInv
      /\ KanzleiInv
  BY DEF MeldeInv
<1>2. TypeInv'
  BY <1>1 DEF TypeInv
<1>3. ZeileInv'
  BY <1>1 DEF ZeileInv, TypeInv, ZeileTyp
<1>4. AnfrageInv'
  BY <1>1 DEF AnfrageInv, AnfrageStimmt
<1>5. EreignisInv'
  BY <1>1 DEF EreignisInv
<1>6. RufInv'
  BY <1>1 DEF RufInv, RufStimmt, Unterwegs, Traegt
<1>7. AnlageInv'
  BY <1>1 DEF AnlageInv, AnlageStimmt
<1>8. ErsterInv'
  <2> SUFFICES ASSUME NEW b \in Anfragen, b # r
               PROVE  ErsterStimmt(b)'
    BY DEF ErsterInv
  <2>1. Ungehoert(b)' => Ungehoert(b) /\ zeile'.token # r
    BY <1>1 DEF Ungehoert, Eigen, TypeInv
  <2> QED
    BY <1>1, <2>1 DEF ErsterInv, ErsterStimmt, Sendend
<1>9. KanzleiInv'
  BY <1>1 DEF KanzleiInv, TypeInv
<1> QED
  BY <1>2, <1>3, <1>4, <1>5, <1>6, <1>7, <1>8, <1>9 DEF MeldeInv

\* A request that is not about to send, or that ends.
Vorher == {"aus", "zaehlt", "beginnt", "loestAuf", "wiederholt", "uebernimmt", "legtAb"}

Ruhig(r) ==
  /\ Leise(r) /\ anlage' = anlage
  /\ post'[r] \in {"unterwegs", "keine"} /\ (post'[r] = "unterwegs" => post[r] = "unterwegs")
  /\ anfrage'[r].pc \in (Stellen \ {"aus", "legtAb", "ruft", "wartet"})
  /\ anfrage'[r].pc = "ende" \/ anfrage[r].pc \in Vorher
  /\ anfrage[r].pc = "legtAb" => anfrage'[r].pc \in {"raeumt", "ende"}
  /\ anfrage'[r].v = anfrage[r].v \/ (anfrage[r].pc = "aus" /\ anfrage'[r].v <= begonnen)
  /\ anfrage'[r].pc \in {"loestAuf", "wiederholt", "uebernimmt"} => anfrage'[r].v # 0
  /\ anfrage'[r].ausgang \in {"keiner", "nieGesendet"}
  /\ anfrage'[r].pc \notin {"raeumt", "schliesst"} => anfrage'[r].ausgang = "keiner"
  /\ ~ anfrage'[r].erste

LEMMA RuhigerSchritt ==
  ASSUME MeldeInv, NEW r \in Anfragen, Ruhig(r)
  PROVE  MeldeInv'
<1> USE DEF Ruhig
<1>1. TypeInv /\ ZeileInv /\ AnfrageStimmt(r) /\ EreignisInv /\ RufStimmt(r) /\ AnlageStimmt(r)
  BY DEF MeldeInv, AnfrageInv, RufInv, AnlageInv
<1>2. /\ UNCHANGED <<alter, anlage, inhalt, kennt, ereignisse, kanzlei, begonnen, frueh>>
      /\ zeile'.v = zeile.v /\ zeile'.gesendet = zeile.gesendet
  BY DEF Ruhig, Leise, dienst, spur, Hand
<1>3. AnfrageStimmt(r)'
  BY <1>1, <1>2 DEF AnfrageStimmt, Vorher, Stellen
<1>4. Sendend(r)' => Sendend(r) /\ anfrage'[r].v = anfrage[r].v
  BY <1>1, <1>2 DEF AnfrageStimmt, Sendend
<1>5. RufStimmt(r)'
  BY <1>1, <1>2, <1>4 DEF RufStimmt, Unterwegs, Sendend
<1>6. AnlageStimmt(r)'
  BY <1>1, <1>2 DEF AnlageStimmt, Vorher
<1>7. ErsterStimmt(r)'
  BY DEF ErsterStimmt, Ungehoert
<1> QED
  BY <1>3, <1>4, <1>5, <1>6, <1>7, LeiserSchritt

\* Leaves zeile, post and all else to the others.
NurSelbst(r) ==
  /\ NurAnfrage(r)
  /\ UNCHANGED <<zeile, alter, anlage, post, dienst, kanzlei, spur>>

LEMMA SelbstLeise ==
  ASSUME MeldeInv, NEW r \in Anfragen, NurSelbst(r)
  PROVE  Leise(r)
  BY DEF MeldeInv, TypeInv, ZeileInv, NurSelbst, Leise, Hand

LEMMA RuhigGeht ==
  ASSUME MeldeInv, NEW r \in Anfragen, anfrage[r].pc \in Vorher
  PROVE  /\ anfrage[r].ausgang = "keiner" /\ post[r] = "keine"
         /\ anfrage[r].v <= begonnen /\ ~ anfrage[r].erste
         /\ anfrage[r].pc \in {"loestAuf", "wiederholt", "uebernimmt", "legtAb"} => anfrage[r].v # 0
  BY DEF MeldeInv, TypeInv, AnfrageInv, AnfrageStimmt, Vorher

\* A request that ends and leaves all else alone, whatever it waited for.
LEMMA EndetStill ==
  ASSUME MeldeInv, NEW r \in Anfragen, anfrage[r].pc \in Vorher, Endet(r),
         UNCHANGED <<zeile, alter, anlage, post, dienst, kanzlei, spur>>
  PROVE  MeldeInv'
<1>1. Fertig(r)
  BY EndetFertig DEF MeldeInv
<1>2. Leise(r) /\ anlage' = anlage
  BY <1>1, SelbstLeise DEF Fertig, NurSelbst
<1> QED
  BY <1>1, <1>2, RuhigGeht, RuhigerSchritt DEF Ruhig, Fertig, Leise, Stellen

LEMMA SendeHaelt ==
  ASSUME MeldeInv, NEW r \in Anfragen, Sende(r)
  PROVE  MeldeInv'
<1>1. TypeInv /\ ZeileInv
  BY DEF MeldeInv
<1>2. PICK mit \in BOOLEAN :
        anfrage' = [anfrage EXCEPT ![r].pc = Weg, ![r].v = zeile.v, ![r].mit = mit]
  BY DEF Sende
<1>3. Weg \in {"zaehlt", "loestAuf", "wiederholt", "ende"} /\ (zeile.v = 0 => Weg = "zaehlt")
  <2>1. CASE zeile.v = 0
    BY <1>1, <2>1 DEF Weg, ZeileInv
  <2>2. CASE zeile.v # 0 /\ ~ zeile.gesendet
    BY <2>2 DEF Weg
  <2>3. CASE zeile.v # 0 /\ zeile.gesendet /\ imFenster(zeile.v)
    BY <2>3 DEF Weg
  <2>4. CASE zeile.v # 0 /\ zeile.gesendet /\ ~ imFenster(zeile.v)
    BY <2>4 DEF Weg
  <2> QED
    BY <2>1, <2>2, <2>3, <2>4
<1> DEFINE a == anfrage[r]
           n == [a EXCEPT !.pc = Weg, !.v = zeile.v, !.mit = mit]
<1>4. a \in AnfrageTyp
  BY <1>1 DEF TypeInv
<1>5. zeile.v \in Vorgaenge \union {0}
  BY <1>1 DEF TypeInv, ZeileTyp
<1>6. n \in AnfrageTyp /\ n.pc = Weg /\ n.v = zeile.v /\ n.ausgang = a.ausgang
      /\ n.erste = a.erste
  BY <1>3, <1>4, <1>5 DEF AnfrageTyp
<1>7. anfrage' = [anfrage EXCEPT ![r] = n]
  BY <1>2
<1> HIDE DEF n
<1>8. NurAnfrage(r) /\ anfrage'[r] = n
  BY <1>1, <1>6, <1>7 DEF TypeInv, NurAnfrage
<1>9. Leise(r) /\ UNCHANGED <<post, anlage>> /\ anfrage[r].pc = "aus"
  BY <1>8, SelbstLeise DEF NurSelbst, Sende, Leise
<1>10. zeile.v <= begonnen
  BY <1>1 DEF ZeileInv
<1> QED
  BY <1>3, <1>6, <1>8, <1>9, <1>10, RuhigGeht, RuhigerSchritt DEF Ruhig, Stellen, Vorher

LEMMA KlaereHaelt ==
  ASSUME MeldeInv, NEW r \in Anfragen, Klaere(r)
  PROVE  MeldeInv'
<1>1. TypeInv /\ ZeileInv
  BY DEF MeldeInv
<1> DEFINE a == anfrage[r]
           p == IF zeile.gesendet THEN "wiederholt" ELSE "uebernimmt"
           n == [a EXCEPT !.pc = p, !.v = zeile.v]
<1>4. a \in AnfrageTyp
  BY <1>1 DEF TypeInv
<1>5. zeile.v \in Vorgaenge \union {0} /\ zeile.v # 0
  BY <1>1 DEF TypeInv, ZeileTyp, Klaere
<1>6. n \in AnfrageTyp /\ n.pc = p /\ n.v = zeile.v /\ n.ausgang = a.ausgang
      /\ n.erste = a.erste
  BY <1>4, <1>5 DEF AnfrageTyp
<1>7. anfrage' = [anfrage EXCEPT ![r] = n]
  BY DEF Klaere
<1> HIDE DEF n
<1>8. NurAnfrage(r) /\ anfrage'[r] = n
  BY <1>1, <1>6, <1>7 DEF TypeInv, NurAnfrage
<1>9. Leise(r) /\ UNCHANGED <<post, anlage>> /\ anfrage[r].pc = "aus"
  BY <1>8, SelbstLeise DEF NurSelbst, Klaere, Leise
<1>10. zeile.v <= begonnen
  BY <1>1 DEF ZeileInv
<1> QED
  BY <1>5, <1>6, <1>8, <1>9, <1>10, RuhigGeht, RuhigerSchritt DEF Ruhig, Stellen, Vorher

LEMMA ZaehleHaelt ==
  ASSUME MeldeInv, NEW r \in Anfragen, Zaehle(r)
  PROVE  MeldeInv'
<1>1. PICK p \in {"beginnt", "ende"} : Geht(r, p)
  BY WeiterGeht DEF MeldeInv, Zaehle, Stellen
<1>2. Leise(r) /\ UNCHANGED <<post, anlage>> /\ anfrage[r].pc = "zaehlt"
  BY <1>1, SelbstLeise DEF Geht, NurSelbst, Zaehle, Leise
<1> QED
  BY <1>1, <1>2, RuhigGeht, RuhigerSchritt DEF Ruhig, Stellen, Vorher, Geht

LEMMA AblageScheitertHaelt ==
  ASSUME MeldeInv, NEW r \in Anfragen, AblageScheitert(r)
  PROVE  MeldeInv'
<1> DEFINE a == anfrage[r]
           n == [a EXCEPT !.pc = "raeumt", !.ausgang = "nieGesendet"]
<1>1. a \in AnfrageTyp
  BY DEF MeldeInv, TypeInv
<1>2. n \in AnfrageTyp /\ n.pc = "raeumt" /\ n.v = a.v /\ n.ausgang = "nieGesendet"
      /\ n.erste = a.erste
  BY <1>1 DEF AnfrageTyp
<1>3. anfrage' = [anfrage EXCEPT ![r] = n]
  BY DEF AblageScheitert
<1> HIDE DEF n
<1>4. NurAnfrage(r) /\ anfrage'[r] = n
  BY <1>2, <1>3 DEF MeldeInv, TypeInv, NurAnfrage
<1>5. Leise(r) /\ UNCHANGED <<post, anlage>> /\ anfrage[r].pc = "legtAb"
  BY <1>4, SelbstLeise DEF NurSelbst, AblageScheitert, Leise
<1> QED
  BY <1>2, <1>4, <1>5, RuhigGeht, RuhigerSchritt DEF Ruhig, Stellen, Vorher

LEMMA WiederholeHaelt ==
  ASSUME MeldeInv, NEW r \in Anfragen, Wiederhole(r)
  PROVE  MeldeInv'
<1>1. CASE Endet(r) /\ UNCHANGED zeile
  BY <1>1, EndetStill DEF Wiederhole, Vorher
<1>2. CASE Beanspruchbar(r) /\ zeile.gesendet /\ imFenster(zeile.v)
           /\ Beanspruche(r) /\ Weiter(r, "ruft")
  <2>1. TypeInv /\ ZeileInv /\ AnfrageStimmt(r) /\ RufStimmt(r) /\ AnlageStimmt(r)
    BY DEF MeldeInv, AnfrageInv, RufInv, AnlageInv
  <2>2. Geht(r, "ruft") /\ anfrage[r].pc = "wiederholt"
    BY <1>2, WeiterGeht, <2>1 DEF Stellen, Wiederhole
  <2>3. Hand(r) /\ zeile'.token = r
    BY <1>2, <2>1, AnfragenAssumption
       DEF Beanspruche, Beanspruchbar, Hand, TypeInv, ZeileTyp, ZeileInv
  <2>4. Leise(r) /\ UNCHANGED <<post, anlage>>
    BY <2>1, <2>2, <2>3 DEF Leise, Geht, Wiederhole, TypeInv
  <2>5. /\ UNCHANGED <<alter, anlage, inhalt, kennt, ereignisse, kanzlei, begonnen, frueh>>
        /\ zeile'.v = zeile.v /\ zeile'.gesendet = zeile.gesendet
    BY <2>4 DEF Leise, dienst, spur, Hand
  <2>6. anfrage[r].ausgang = "keiner" /\ post[r] = "keine" /\ anfrage[r].v # 0
    BY <2>2, RuhigGeht DEF Vorher
  <2>7. AnfrageStimmt(r)'
    BY <2>1, <2>2, <2>4, <2>5, <2>6 DEF AnfrageStimmt, Geht
  <2>8. RufStimmt(r)'
    BY <1>2, <2>1, <2>2, <2>4, <2>5, <2>6 DEF RufStimmt, Geht, imFenster, Beanspruchbar
  <2>9. AnlageStimmt(r)'
    BY <2>1, <2>2, <2>5 DEF AnlageStimmt, Geht
  <2>10. ErsterStimmt(r)'
    BY <2>1, <2>2 DEF ErsterStimmt, Ungehoert, Geht, AnfrageStimmt
  <2> QED
    BY <2>2, <2>3, <2>4, <2>7, <2>8, <2>9, <2>10, LeiserSchritt DEF Geht
<1> QED
  BY <1>1, <1>2 DEF Wiederhole

LEMMA UebernimmHaelt ==
  ASSUME MeldeInv, NEW r \in Anfragen, Uebernimm(r)
  PROVE  MeldeInv'
<1>1. CASE Endet(r) /\ UNCHANGED zeile
  BY <1>1, EndetStill DEF Uebernimm, Vorher
<1>2. CASE /\ Beanspruchbar(r) /\ Beanspruche(r)
           /\ anfrage' = [anfrage EXCEPT ![r].pc = "schliesst", ![r].ausgang = "nieGesendet"]
  <2> DEFINE a == anfrage[r]
             n == [a EXCEPT !.pc = "schliesst", !.ausgang = "nieGesendet"]
  <2>1. TypeInv /\ ZeileInv /\ a \in AnfrageTyp /\ anfrage[r].pc = "uebernimmt"
    BY DEF MeldeInv, TypeInv, Uebernimm
  <2>2. n \in AnfrageTyp /\ n.pc = "schliesst" /\ n.v = a.v /\ n.ausgang = "nieGesendet"
      /\ n.erste = a.erste
    BY <2>1 DEF AnfrageTyp
  <2>3. anfrage' = [anfrage EXCEPT ![r] = n]
    BY <1>2
  <2> HIDE DEF n
  <2>4. NurAnfrage(r) /\ anfrage'[r] = n
    BY <2>1, <2>2, <2>3 DEF TypeInv, NurAnfrage
  <2>5. anfrage[r].v # 0 /\ post[r] = "keine" /\ ~ anfrage[r].erste
    BY <2>1, RuhigGeht DEF Vorher
  <2>6. Hand(r)
    BY <1>2, <2>1, <2>5, AnfragenAssumption
       DEF Beanspruche, Beanspruchbar, Hand, TypeInv, ZeileTyp, ZeileInv
  <2>7. Leise(r) /\ UNCHANGED <<post, anlage>>
    BY <2>1, <2>4, <2>6 DEF Leise, Uebernimm, TypeInv
  <2> QED
    BY <2>1, <2>2, <2>4, <2>5, <2>7, RuhigerSchritt DEF Ruhig, Stellen, Vorher
<1> QED
  BY <1>1, <1>2 DEF Uebernimm

LEMMA LeaseEndetHaelt ==
  ASSUME MeldeInv, LeaseEndet
  PROVE  MeldeInv'
<1>1. TypeInv /\ ZeileInv
  BY DEF MeldeInv
<1>2. PICK r \in Anfragen : r = zeile.token
  BY <1>1 DEF LeaseEndet, TypeInv, ZeileInv, ZeileTyp
<1>3. Hand(r) /\ zeile'.token = zeile.token
  BY <1>1 DEF LeaseEndet, Hand, TypeInv, ZeileTyp, ZeileInv
<1>4. Leise(r) /\ UNCHANGED <<anfrage, post, anlage>>
  BY <1>1, <1>3 DEF Leise, NurAnfrage, LeaseEndet, TypeInv
<1>5. /\ UNCHANGED <<alter, anlage, inhalt, kennt, ereignisse, kanzlei, begonnen, frueh>>
      /\ zeile'.v = zeile.v /\ zeile'.gesendet = zeile.gesendet
  BY <1>4 DEF Leise, dienst, spur, Hand
<1>6. AnfrageStimmt(r) /\ RufStimmt(r) /\ AnlageStimmt(r) /\ ErsterStimmt(r) /\ KanzleiInv
  BY DEF MeldeInv, AnfrageInv, RufInv, AnlageInv, ErsterInv
<1>7. AnfrageStimmt(r)' /\ RufStimmt(r)' /\ AnlageStimmt(r)'
  BY <1>4, <1>5, <1>6 DEF AnfrageStimmt, RufStimmt, AnlageStimmt, Unterwegs, Traegt
<1>8. ErsterStimmt(r)'
  BY <1>3, <1>4, <1>5, <1>6 DEF ErsterStimmt, Ungehoert, Eigen
<1> QED
  BY <1>2, <1>3, <1>4, <1>5, <1>6, <1>7, <1>8, LeiserSchritt DEF KanzleiInv

LEMMA SetzeWirkt ==
  ASSUME TypeInv, NEW S, NEW stand \in {"keine", "gebunden", "zugeordnet", "frei", "freiKanzlei"},
         NEW e \in Vorgaenge \union {0}, Setze(S, stand, e)
  PROVE  /\ anlage' \in [Anfragen -> AnlageTyp]
         /\ \A q \in Anfragen :
              /\ q \in S => anlage'[q].stand = stand /\ anlage'[q].ereignis = e
              /\ q \notin S => anlage'[q] = anlage[q]
  BY DEF TypeInv, AnlageTyp, Setze

LEMMA SetzeEine ==
  ASSUME TypeInv, NEW r \in Anfragen,
         NEW stand \in {"keine", "gebunden", "zugeordnet", "frei", "freiKanzlei"},
         NEW e \in Vorgaenge \union {0}, Setze({r}, stand, e)
  PROVE  /\ anlage' \in [Anfragen -> AnlageTyp]
         /\ anlage'[r].stand = stand /\ anlage'[r].ereignis = e
         /\ \A q \in Anfragen \ {r} : anlage'[q] = anlage[q]
  BY DEF TypeInv, AnlageTyp, Setze

LEMMA SetzeOffene ==
  ASSUME TypeInv, NEW stand \in {"frei", "zugeordnet"},
         NEW e \in Vorgaenge \union {0}, Setze(Offene, stand, e)
  PROVE  /\ anlage' \in [Anfragen -> AnlageTyp]
         /\ \A q \in Anfragen :
              \/ anlage'[q] = anlage[q] /\ anlage[q].stand # "gebunden"
              \/ /\ anlage[q].stand = "gebunden"
                 /\ anlage'[q].stand = stand /\ anlage'[q].ereignis = e
  BY DEF TypeInv, AnlageTyp, Setze, Offene

LEMMA LegeAbHaelt ==
  ASSUME MeldeInv, NEW r \in Anfragen, LegeAb(r)
  PROVE  MeldeInv'
<1>1. TypeInv /\ ZeileInv /\ AnfrageStimmt(r) /\ RufStimmt(r) /\ AnlageStimmt(r) /\ KanzleiInv
  BY DEF MeldeInv, AnfrageInv, RufInv, AnlageInv
<1>2. /\ anlage' \in [Anfragen -> AnlageTyp]
      /\ anlage'[r].stand = "gebunden" /\ anlage'[r].ereignis = 0
      /\ \A q \in Anfragen \ {r} : anlage'[q] = anlage[q]
  <2>1. Setze({r}, "gebunden", 0)
    BY DEF LegeAb
  <2> QED
    BY <1>1, <2>1, SetzeEine
<1>3. anfrage[r].pc = "legtAb" /\ anlage[r].stand = "keine"
  BY DEF LegeAb, OhneAnlage
<1>4. Leise(r) /\ UNCHANGED <<zeile, anfrage, post, alter, inhalt, kennt, ereignisse, begonnen>>
  BY <1>1, <1>2, <1>3 DEF LegeAb, Leise, NurAnfrage, Hand, TypeInv, dienst, spur, ZeileInv
<1>5. AnfrageStimmt(r)' /\ RufStimmt(r)' /\ AnlageStimmt(r)'
  BY <1>1, <1>2, <1>3, <1>4
     DEF AnfrageStimmt, RufStimmt, AnlageStimmt, Unterwegs, Traegt
<1>6. ErsterStimmt(r)'
  BY <1>3, <1>4 DEF ErsterStimmt, Ungehoert
<1>7. ~ (kanzlei.pc # "ruht" /\ kanzlei.r = r)
  BY <1>1, <1>3 DEF KanzleiInv
<1> QED
  BY <1>4, <1>5, <1>6, <1>7, LeiserSchritt DEF Sendend

LEMMA RaeumeHaelt ==
  ASSUME MeldeInv, NEW r \in Anfragen, Raeume(r)
  PROVE  MeldeInv'
<1>1. TypeInv /\ ZeileInv /\ AnfrageStimmt(r) /\ RufStimmt(r) /\ AnlageStimmt(r)
  BY DEF MeldeInv, AnfrageInv, RufInv, AnlageInv
<1>2. /\ anlage' \in [Anfragen -> AnlageTyp]
      /\ anlage[r].stand # "keine" => anlage'[r].stand # "keine"
      /\ anlage[r].stand = "keine" => anlage'[r].stand = "keine"
      /\ anlage'[r].stand = "zugeordnet" <=> anlage'[r].ereignis # 0
      /\ \A q \in Anfragen \ {r} : anlage'[q] = anlage[q]
  <2>1. CASE Setze({r}, "frei", 0) /\ anlage[r].stand \in {"gebunden", "zugeordnet"}
    <3>1. /\ anlage' \in [Anfragen -> AnlageTyp]
          /\ anlage'[r].stand = "frei" /\ anlage'[r].ereignis = 0
          /\ \A q \in Anfragen \ {r} : anlage'[q] = anlage[q]
      BY <1>1, <2>1, SetzeEine
    <3> QED
      BY <2>1, <3>1
  <2>2. CASE UNCHANGED anlage
    BY <1>1, <2>2 DEF TypeInv, AnfrageStimmt
  <2> QED
    BY <2>1, <2>2 DEF Raeume
<1>3. PICK p \in {"ende", "schliesst"} :
        Geht(r, p) /\ (p = "ende" <=> anfrage[r].ausgang = "keiner")
  BY <1>1, WeiterGeht DEF Raeume, Stellen
<1>4. anfrage[r].pc = "raeumt"
  BY DEF Raeume
<1>5. Leise(r) /\ UNCHANGED <<zeile, post, alter, inhalt, kennt, ereignisse, begonnen>>
  BY <1>1, <1>2, <1>3 DEF Raeume, Leise, Hand, TypeInv, dienst, spur, ZeileInv, Geht
<1>6. post[r] = "keine" /\ anfrage[r].ausgang \in {"keiner", "nieGesendet"} /\ ~ anfrage[r].erste
  BY <1>1, <1>4 DEF AnfrageStimmt, TypeInv
<1>7. AnfrageStimmt(r)'
  BY <1>1, <1>2, <1>3, <1>4, <1>5, <1>6 DEF AnfrageStimmt, Geht
<1>8. RufStimmt(r)'
  BY <1>3, <1>5, <1>6 DEF RufStimmt, Unterwegs, Geht
<1>9. AnlageStimmt(r)'
  BY <1>1, <1>3, <1>4, <1>5 DEF AnlageStimmt, Geht
<1>10. ErsterStimmt(r)'
  BY <1>3, <1>6 DEF ErsterStimmt, Ungehoert, Geht
<1> QED
  BY <1>3, <1>5, <1>6, <1>7, <1>8, <1>9, <1>10, LeiserSchritt DEF Sendend, Geht

-----------------------------------------------------------------------------
\* Request r has its answer.
Weiss(r, ausgang) ==
  /\ NurAnfrage(r)
  /\ anfrage'[r].pc = "schliesst" /\ anfrage'[r].ausgang = ausgang
  /\ anfrage'[r].v = anfrage[r].v /\ anfrage'[r].erste = anfrage[r].erste
  /\ anfrage'[r].ereignis = anfrage[r].ereignis

Antworten == {"abgelehnt", "abweichung", "angenommen", "offen"}

LEMMA AusgangWert ==
  ASSUME NEW r, NEW a \in Antworten
  PROVE  /\ Ausgang(r, a) \in {"abgelehnt", "ungeklaert", "offen", "angenommen"}
         /\ Ausgang(r, a) = "abgelehnt" => a = "abgelehnt" /\ anfrage[r].erste
         /\ Ausgang(r, a) = "angenommen" <=> a = "angenommen"
         /\ a = "offen" => Ausgang(r, a) = "offen"
<1>1. CASE a = "abweichung"
  BY <1>1 DEF Ausgang
<1>2. CASE a = "abgelehnt" /\ ~ anfrage[r].erste
  BY <1>2 DEF Ausgang
<1>3. CASE a \in Antworten \ {"abweichung"} /\ ~ (a = "abgelehnt" /\ ~ anfrage[r].erste)
  BY <1>3 DEF Ausgang, Antworten
<1> QED
  BY <1>1, <1>2, <1>3 DEF Antworten

LEMMA ErfaehrtWeiss ==
  ASSUME TypeInv, NEW r \in Anfragen, NEW a \in Antworten, Erfaehrt(r, a)
  PROVE  Weiss(r, Ausgang(r, a))
<1> DEFINE b == anfrage[r]
           n == [b EXCEPT !.pc = "schliesst", !.ausgang = Ausgang(r, a)]
<1>1. b \in AnfrageTyp
  BY DEF TypeInv
<1>2. PICK g \in {"abgelehnt", "ungeklaert", "offen", "angenommen"} : g = Ausgang(r, a)
  BY AusgangWert
<1>3. n \in AnfrageTyp /\ n.pc = "schliesst" /\ n.v = b.v /\ n.erste = b.erste
      /\ n.ausgang = g /\ n.ereignis = b.ereignis
  BY <1>1, <1>2 DEF AnfrageTyp
<1>4. anfrage' = [anfrage EXCEPT ![r] = n]
  BY DEF Erfaehrt
<1> HIDE DEF n
<1> QED
  BY <1>2, <1>3, <1>4 DEF TypeInv, Weiss, NurAnfrage

\* r has its answer, or no longer waits for it.
LEMMA AntwortHaelt ==
  ASSUME MeldeInv, NEW r \in Anfragen, NEW a \in Antworten, Erfaehrt(r, a),
         anfrage[r].pc \in {"ruft", "wartet"},
         a = "angenommen" => post[r] = "angenommen",
         a = "abgelehnt" => anfrage[r].pc = "ruft" \/ post[r] = "abgelehnt",
         a # "offen" => post'[r] = "keine",
         post' \in [Anfragen -> {"keine", "unterwegs", "abgelehnt", "abweichung", "angenommen"}],
         \A q \in Anfragen \ {r} : post'[q] = post[q],
         post'[r] \in {"unterwegs", "keine"} /\ (post'[r] = "unterwegs" => post[r] = "unterwegs"),
         UNCHANGED <<zeile, alter, anlage, dienst, kanzlei, spur>>
  PROVE  MeldeInv'
<1>1. TypeInv /\ ZeileInv /\ AnfrageStimmt(r) /\ RufStimmt(r) /\ AnlageStimmt(r)
      /\ ErsterStimmt(r)
  BY DEF MeldeInv, AnfrageInv, RufInv, AnlageInv, ErsterInv
<1>2. PICK g \in {"abgelehnt", "ungeklaert", "offen", "angenommen"} :
        /\ Weiss(r, g)
        /\ g = "abgelehnt" => a = "abgelehnt" /\ anfrage[r].erste
        /\ g = "angenommen" <=> a = "angenommen"
        /\ a = "offen" => g = "offen"
  BY <1>1, AusgangWert, ErfaehrtWeiss
<1>3. Leise(r) /\ UNCHANGED <<zeile, alter, anlage, inhalt, kennt, ereignisse, begonnen, frueh>>
  BY <1>1, <1>2 DEF Leise, Hand, TypeInv, dienst, spur, ZeileInv, Weiss
<1>4. AnfrageStimmt(r)'
  BY <1>1, <1>2, <1>3 DEF AnfrageStimmt, Weiss, Antworten
<1>5. RufStimmt(r)'
  BY <1>1, <1>2, <1>3 DEF RufStimmt, Unterwegs, Traegt, Weiss
<1>6. AnlageStimmt(r)'
  BY <1>1, <1>2, <1>3 DEF AnlageStimmt, Weiss
<1>7. ErsterStimmt(r)'
  <2>1. Ungehoert(r)' => Ungehoert(r) /\ anfrage'[r].v = anfrage[r].v
    BY <1>2 DEF Ungehoert, Eigen, Weiss
  <2>2. \A q \in Anfragen \ {r} : anfrage'[q] = anfrage[q] /\ post'[q] = post[q]
    BY <1>2 DEF Weiss, NurAnfrage
  <2> QED
    BY <1>1, <1>3, <2>1, <2>2 DEF ErsterStimmt
<1>8. ~ (anfrage'[r].pc \in {"ruft", "legtAb"}) /\ anfrage'[r].v = anfrage[r].v
  BY <1>2 DEF Weiss
<1> QED
  BY <1>3, <1>4, <1>5, <1>6, <1>7, <1>8, LeiserSchritt DEF Sendend

LEMMA RufeHaelt ==
  ASSUME MeldeInv, NEW r \in Anfragen, Rufe(r)
  PROVE  MeldeInv'
<1>1. TypeInv /\ ZeileInv /\ AnfrageStimmt(r) /\ RufStimmt(r) /\ AnlageStimmt(r)
      /\ ErsterStimmt(r)
  BY DEF MeldeInv, AnfrageInv, RufInv, AnlageInv, ErsterInv
<1>2. anfrage[r].pc = "ruft" /\ post[r] = "keine" /\ anfrage[r].ausgang = "keiner"
  BY <1>1 DEF Rufe, AnfrageStimmt, TypeInv
<1>3. CASE Erfaehrt(r, "abgelehnt") /\ UNCHANGED post
  BY <1>1, <1>2, <1>3, AntwortHaelt DEF Rufe, TypeInv, Antworten
<1>4. CASE Weiter(r, "wartet") /\ post' = [post EXCEPT ![r] = "unterwegs"]
  <2>1. Geht(r, "wartet")
    BY <1>1, <1>4, WeiterGeht DEF Stellen
  <2>2. /\ post' \in [Anfragen -> {"keine", "unterwegs", "abgelehnt", "abweichung",
                                    "angenommen"}]
        /\ post'[r] = "unterwegs" /\ \A q \in Anfragen \ {r} : post'[q] = post[q]
    BY <1>1, <1>4 DEF TypeInv
  <2>3. Leise(r) /\ UNCHANGED <<zeile, anlage, alter, inhalt, kennt, ereignisse, begonnen,
                                frueh>>
    BY <1>1, <2>1, <2>2 DEF Leise, Hand, TypeInv, dienst, spur, ZeileInv, Geht, Rufe
  <2>4. AnfrageStimmt(r)'
    BY <1>1, <1>2, <2>1, <2>2, <2>3 DEF AnfrageStimmt, Geht
  <2>5. RufStimmt(r)'
    BY <1>1, <1>2, <2>1, <2>2, <2>3 DEF RufStimmt, Unterwegs, Geht
  <2>6. AnlageStimmt(r)'
    BY <1>1, <1>2, <2>1, <2>3 DEF AnlageStimmt, Geht
  <2>7. ErsterStimmt(r)'
    <3>1. Ungehoert(r)' => Ungehoert(r) /\ anfrage'[r].v = anfrage[r].v
      BY <1>2, <2>1, <2>3 DEF Ungehoert, Eigen, Geht
    <3>2. \A q \in Anfragen \ {r} : anfrage'[q] = anfrage[q] /\ post'[q] = post[q]
      BY <2>1, <2>2 DEF Geht, NurAnfrage
    <3> QED
      BY <1>1, <2>3, <3>1, <3>2 DEF ErsterStimmt
  <2> QED
    BY <1>2, <2>1, <2>2, <2>3, <2>4, <2>5, <2>6, <2>7, LeiserSchritt DEF Sendend, Geht
<1> QED
  BY <1>3, <1>4 DEF Rufe

LEMMA ErfahreHaelt ==
  ASSUME MeldeInv, NEW r \in Anfragen, Erfahre(r)
  PROVE  MeldeInv'
<1>1. post[r] \in Antworten /\ TypeInv
  BY DEF MeldeInv, TypeInv, Erfahre, Antworten
<1> QED
  BY <1>1, AntwortHaelt DEF Erfahre, TypeInv, Antworten

LEMMA ZeitlimitHaelt ==
  ASSUME MeldeInv, NEW r \in Anfragen, Zeitlimit(r)
  PROVE  MeldeInv'
<1>1. TypeInv
  BY DEF MeldeInv
<1> QED
  BY <1>1, AntwortHaelt DEF Zeitlimit, TypeInv, Antworten

LEMMA VerlorenHaelt ==
  ASSUME MeldeInv, NEW r \in Anfragen, Verloren(r)
  PROVE  MeldeInv'
<1>1. TypeInv /\ ZeileInv /\ AnfrageStimmt(r) /\ RufStimmt(r) /\ AnlageStimmt(r)
      /\ ErsterStimmt(r) /\ KanzleiInv
  BY DEF MeldeInv, AnfrageInv, RufInv, AnlageInv, ErsterInv
<1>2. /\ post' \in [Anfragen -> {"keine", "unterwegs", "abgelehnt", "abweichung",
                                  "angenommen"}]
      /\ post'[r] = "keine" /\ \A q \in Anfragen \ {r} : post'[q] = post[q]
  BY <1>1 DEF TypeInv, Verloren
<1>3. Leise(r) /\ UNCHANGED <<zeile, anfrage, anlage, alter, inhalt, kennt, ereignisse, begonnen,
                              frueh>>
  BY <1>1, <1>2 DEF Leise, NurAnfrage, Hand, TypeInv, dienst, spur, ZeileInv, Verloren
<1>4. AnfrageStimmt(r)' /\ AnlageStimmt(r)' /\ RufStimmt(r)'
  BY <1>1, <1>2, <1>3 DEF AnfrageStimmt, AnlageStimmt, RufStimmt, Unterwegs, Traegt
<1>5. ErsterStimmt(r)'
  BY <1>1, <1>2, <1>3 DEF ErsterStimmt, Ungehoert, Eigen
<1> QED
  BY <1>1, <1>2, <1>3, <1>4, <1>5, LeiserSchritt DEF Sendend, KanzleiInv

LEMMA AbsturzHaelt ==
  ASSUME MeldeInv, NEW r \in Anfragen, Absturz(r)
  PROVE  MeldeInv'
<1>1. TypeInv /\ ZeileInv
  BY DEF MeldeInv
<1>2. Fertig(r)
  BY <1>1, EndetFertig DEF Absturz
<1>3. /\ post' \in [Anfragen -> {"keine", "unterwegs", "abgelehnt", "abweichung",
                                  "angenommen"}]
      /\ post'[r] \in {"unterwegs", "keine"} /\ (post'[r] = "unterwegs" => post[r] = "unterwegs")
      /\ \A q \in Anfragen \ {r} : post'[q] = post[q]
  BY <1>1 DEF TypeInv, Absturz
<1>4. Leise(r) /\ anlage' = anlage
  BY <1>1, <1>2, <1>3 DEF Leise, Hand, TypeInv, ZeileInv, Absturz, Fertig
<1> QED
  BY <1>2, <1>3, <1>4, RuhigerSchritt DEF Ruhig, Fertig, Stellen

-----------------------------------------------------------------------------
\* The answer to r is on its way, or nobody waits for it.
Beantwortet(r, a, e) ==
  /\ NurAnfrage(r)
  /\ anfrage'[r].pc = anfrage[r].pc /\ anfrage'[r].v = anfrage[r].v
  /\ anfrage'[r].erste = anfrage[r].erste /\ anfrage'[r].ausgang = anfrage[r].ausgang
  /\ anfrage'[r].ereignis = IF anfrage[r].pc = "wartet" THEN e ELSE anfrage[r].ereignis
  /\ post' \in [Anfragen -> {"keine", "unterwegs", "abgelehnt", "abweichung", "angenommen"}]
  /\ post'[r] = IF anfrage[r].pc = "wartet" THEN a ELSE "keine"
  /\ \A q \in Anfragen \ {r} : post'[q] = post[q]

LEMMA AntwortetWirkt ==
  ASSUME TypeInv, NEW r \in Anfragen, NEW a \in {"abgelehnt", "abweichung", "angenommen"},
         NEW e \in Vorgaenge \union {0}, Antwortet(r, a, e)
  PROVE  Beantwortet(r, a, e)
<1> DEFINE b == anfrage[r]
           n == [b EXCEPT !.ereignis = e]
<1>1. b \in AnfrageTyp
  BY DEF TypeInv
<1>2. CASE anfrage[r].pc = "wartet"
  <2>1. n \in AnfrageTyp /\ n.pc = b.pc /\ n.v = b.v /\ n.erste = b.erste
        /\ n.ausgang = b.ausgang /\ n.ereignis = e
    BY <1>1 DEF AnfrageTyp
  <2>2. anfrage' = [anfrage EXCEPT ![r] = n] /\ post' = [post EXCEPT ![r] = a]
    BY <1>2 DEF Antwortet
  <2> HIDE DEF n
  <2> QED
    BY <1>2, <2>1, <2>2 DEF TypeInv, Beantwortet, NurAnfrage
<1>3. CASE anfrage[r].pc # "wartet"
  BY <1>3 DEF TypeInv, Beantwortet, NurAnfrage, Antwortet
<1> QED
  BY <1>2, <1>3

\* An answer that makes no event: a rejection, or the one the key has been given.
LEMMA AntwortUnterwegs ==
  ASSUME MeldeInv, NEW r \in Anfragen, NEW a \in {"abgelehnt", "abweichung", "angenommen"},
         NEW e \in Vorgaenge \union {0}, Beantwortet(r, a, e), post[r] = "unterwegs",
         a = "angenommen" =>
           /\ e # 0 /\ ereignisse[e] > 0
           /\ inhalt[e] = inhalt[anfrage[r].v],
         UNCHANGED <<zeile, alter, anlage, dienst, kanzlei, spur>>
  PROVE  MeldeInv'
<1> USE DEF Beantwortet
<1>1. TypeInv /\ ZeileInv /\ AnfrageStimmt(r) /\ RufStimmt(r) /\ AnlageStimmt(r)
      /\ ErsterStimmt(r) /\ KanzleiInv
  BY DEF MeldeInv, AnfrageInv, RufInv, AnlageInv, ErsterInv
<1>2. Leise(r) /\ UNCHANGED <<zeile, alter, anlage, inhalt, kennt, ereignisse, begonnen, frueh>>
  BY <1>1 DEF Leise, Hand, TypeInv, dienst, spur, ZeileInv
<1>3. AnfrageStimmt(r)'
  BY <1>1, <1>2 DEF AnfrageStimmt
<1>4. RufStimmt(r)'
  <2>1. Unterwegs(r) /\ alter[anfrage[r].v] \in {"fenster", "zu"} /\ anfrage[r].v # 0
    BY <1>1 DEF RufStimmt, Unterwegs
  <2>2. CASE anfrage[r].pc = "wartet"
    BY <1>1, <1>2, <2>1, <2>2 DEF RufStimmt, AnfrageStimmt, Traegt
  <2>3. CASE anfrage[r].pc # "wartet"
    BY <1>1, <1>2, <2>1, <2>3 DEF RufStimmt, Traegt
  <2> QED
    BY <2>2, <2>3
<1>5. AnlageStimmt(r)'
  BY <1>1, <1>2 DEF AnlageStimmt
<1>6. ErsterStimmt(r)'
  <2>1. Ungehoert(r)' => Ungehoert(r)
    BY <1>1, <1>2 DEF Ungehoert, Eigen, AnfrageStimmt
  <2>2. \A q \in Anfragen \ {r} : anfrage'[q] = anfrage[q] /\ post'[q] = post[q]
    BY DEF NurAnfrage
  <2> QED
    BY <1>1, <1>2, <2>1, <2>2 DEF ErsterStimmt
<1>7. Sendend(r) /\ ~ (kanzlei.pc # "ruht" /\ kanzlei.r = r /\ anfrage'[r].pc = "legtAb")
  BY <1>1 DEF Sendend, AnfrageStimmt
<1> QED
  BY <1>2, <1>3, <1>4, <1>5, <1>6, <1>7, LeiserSchritt

\* The event is made of r's report.
LEMMA NimmtAnHaelt ==
  ASSUME MeldeInv, NEW r \in Anfragen, NimmtAn(r), post[r] = "unterwegs",
         UNCHANGED <<zeile, alter, anlage, kanzlei, spur>>
  PROVE  MeldeInv'
<1> USE DEF Beantwortet, NurAnfrage, spur
<1>1. TypeInv /\ ZeileInv /\ AnfrageInv /\ EreignisInv /\ RufInv /\ AnlageInv /\ ErsterInv
      /\ KanzleiInv
  BY DEF MeldeInv
<1>2. PICK v \in Vorgaenge : v = anfrage[r].v /\ alter[v] \in {"fenster", "zu"}
  <2>1. anfrage[r].v \in Vorgaenge \union {0}
    BY <1>1 DEF TypeInv, AnfrageTyp
  <2> QED
    BY <1>1, <2>1 DEF RufInv, RufStimmt, Unterwegs
<1>3. /\ kennt = 0 /\ kennt' = v /\ inhalt' = inhalt
      /\ ereignisse' = [ereignisse EXCEPT ![v] = @ + 1]
      /\ Antwortet(r, "angenommen", v)
  BY <1>2 DEF NimmtAn
<1>4. Beantwortet(r, "angenommen", v)
  BY <1>1, <1>3, AntwortetWirkt
<1>5. ereignisse[v] = 0 /\ ereignisse'[v] = 1 /\ ereignisse' \in [Vorgaenge -> Nat]
      /\ \A u \in Vorgaenge \ {v} : ereignisse'[u] = ereignisse[u]
  <2>1. ereignisse[v] = 0
    BY <1>1, <1>2, <1>3, NullIstKeiner DEF EreignisInv, TypeInv
  <2> QED
    BY <1>1, <1>3, <2>1 DEF TypeInv
<1>6. TypeInv'
  BY <1>1, <1>3, <1>4, <1>5 DEF TypeInv
<1>7. ZeileInv'
  BY <1>1, <1>2, <1>3, <1>5 DEF ZeileInv
<1>8. AnfrageInv'
  BY <1>1, <1>4 DEF AnfrageInv, AnfrageStimmt
<1>9. EreignisInv'
  BY <1>1, <1>2, <1>3, <1>5, NullIstKeiner DEF EreignisInv, TypeInv
<1>10. RufInv'
  <2> SUFFICES ASSUME NEW b \in Anfragen
               PROVE  RufStimmt(b)'
    BY DEF RufInv
  <2>1. RufStimmt(b) /\ AnfrageStimmt(b) /\ alter' = alter
    BY <1>1 DEF RufInv, AnfrageInv
  <2>2. Traegt(b) /\ anfrage'[b] = anfrage[b] => Traegt(b)'
    <3> HAVE Traegt(b) /\ anfrage'[b] = anfrage[b]
    <3>1. anfrage[b].ereignis \in Vorgaenge
      BY <1>1 DEF TypeInv, AnfrageTyp, Traegt
    <3> QED
      BY <1>1, <1>3, <1>5, <3>1, <2>1 DEF Traegt, TypeInv
  <2>3. CASE b # r
    BY <1>4, <2>1, <2>2, <2>3 DEF RufStimmt, Unterwegs
  <2>4. CASE b = r /\ anfrage[r].pc = "wartet"
    BY <1>2, <1>3, <1>4, <1>5, <2>1, <2>4 DEF RufStimmt, Unterwegs, Traegt
  <2>5. CASE b = r /\ anfrage[r].pc # "wartet"
    BY <1>4, <2>1, <2>5 DEF RufStimmt, Unterwegs, AnfrageStimmt
  <2> QED
    BY <2>3, <2>4, <2>5
<1>11. AnlageInv'
  BY <1>1, <1>2, <1>3, <1>4, <1>5 DEF AnlageInv, AnlageStimmt
<1>12. ErsterInv'
  <2> SUFFICES ASSUME NEW b \in Anfragen, Ungehoert(b)'
               PROVE  ErsterStimmt(b)'
    BY DEF ErsterInv, ErsterStimmt
  <2>1. b # r
    BY <1>1, <1>4 DEF Ungehoert, AnfrageInv, AnfrageStimmt
  <2>2. Ungehoert(b) /\ ErsterStimmt(b) /\ anfrage'[b] = anfrage[b]
    BY <1>1, <1>4, <2>1 DEF Ungehoert, Eigen, ErsterInv
  <2>3. anfrage[b].v # v /\ anfrage[b].v \in Vorgaenge \union {0}
    BY <1>1, <1>2, <2>1, <2>2 DEF ErsterStimmt, TypeInv, AnfrageTyp
  <2>4. anfrage[b].v \in Vorgaenge
    BY <1>1, <2>2, <2>3, AnfragenAssumption DEF Ungehoert, Eigen, ZeileInv, TypeInv
  <2> QED
    BY <1>4, <1>5, <2>1, <2>2, <2>3, <2>4 DEF ErsterStimmt
<1>13. KanzleiInv'
  BY <1>1, <1>2, <1>3, <1>4, <1>5 DEF KanzleiInv, TypeInv
<1> QED
  BY <1>6, <1>7, <1>8, <1>9, <1>10, <1>11, <1>12, <1>13 DEF MeldeInv

LEMMA AnkunftHaelt ==
  ASSUME MeldeInv, NEW r \in Anfragen, Ankunft(r)
  PROVE  MeldeInv'
<1>1. TypeInv /\ EreignisInv
  BY DEF MeldeInv
<1>2. CASE LehntAb(r)
  <2>1. Beantwortet(r, "abgelehnt", 0)
    BY <1>1, <1>2, AntwortetWirkt DEF LehntAb
  <2> QED
    BY <1>2, <2>1, AntwortUnterwegs DEF LehntAb, Ankunft
<1>3. CASE Wiedererkannt(r)
  <2>1. kennt \in Vorgaenge /\ ereignisse[kennt] > 0 /\ UNCHANGED dienst
    BY <1>1, <1>3 DEF TypeInv, EreignisInv, Wiedererkannt
  <2>2. CASE inhalt[kennt] = inhalt[anfrage[r].v]
    <3>1. Antwortet(r, "angenommen", kennt)
      BY <1>3, <2>2 DEF Wiedererkannt
    <3>2. Beantwortet(r, "angenommen", kennt)
      BY <1>1, <2>1, <3>1, AntwortetWirkt
    <3>3. kennt # 0
      BY <1>3 DEF Wiedererkannt
    <3> QED
      BY <2>1, <2>2, <3>2, <3>3, AntwortUnterwegs DEF Ankunft
  <2>3. CASE inhalt[kennt] # inhalt[anfrage[r].v]
    <3>1. Antwortet(r, "abweichung", 0)
      BY <1>3, <2>3 DEF Wiedererkannt
    <3>2. Beantwortet(r, "abweichung", 0)
      BY <1>1, <3>1, AntwortetWirkt
    <3> QED
      BY <2>1, <3>2, AntwortUnterwegs DEF Ankunft
  <2> QED
    BY <2>2, <2>3
<1>4. CASE NimmtAn(r)
  BY <1>4, NimmtAnHaelt DEF Ankunft
<1> QED
  BY <1>2, <1>3, <1>4 DEF Ankunft

-----------------------------------------------------------------------------
LEMMA GesendetHaelt ==
  ASSUME MeldeInv, NEW r \in Anfragen, Gesendet(r)
  PROVE  MeldeInv'
<1> USE DEF NurAnfrage
<1>1. TypeInv /\ ZeileInv /\ AnfrageInv /\ EreignisInv /\ RufInv /\ AnlageInv /\ ErsterInv
      /\ KanzleiInv
  BY DEF MeldeInv
<1>2. /\ anfrage[r].pc = "legtAb" /\ post[r] = "keine" /\ ~ anfrage[r].erste
      /\ anfrage[r].ausgang = "keiner" /\ anfrage[r].v # 0
  BY RuhigGeht DEF Gesendet, Vorher
<1>3. CASE Weiter(r, "raeumt") /\ UNCHANGED <<zeile, alter, inhalt>>
  <2>1. Geht(r, "raeumt")
    BY <1>1, <1>3, WeiterGeht DEF Stellen
  <2>2. Leise(r) /\ UNCHANGED <<post, anlage>>
    BY <1>3, <2>1, SelbstLeise DEF NurSelbst, Gesendet, dienst, Geht
  <2> QED
    BY <1>2, <2>1, <2>2, RuhigerSchritt DEF Ruhig, Geht, Stellen, Vorher
<1>4. CASE /\ Eigen(r) /\ ~ zeile.gesendet
           /\ zeile' = [zeile EXCEPT !.gesendet = TRUE, !.lease = TRUE]
           /\ alter' = [alter EXCEPT ![zeile.v] = "fenster"]
           /\ inhalt' = [inhalt EXCEPT ![zeile.v] = IF anfrage[r].mit THEN {r} ELSE {}]
           /\ anfrage' = [anfrage EXCEPT ![r].pc = "ruft", ![r].erste = TRUE]
  <2>1. PICK v \in Vorgaenge : v = zeile.v /\ v = anfrage[r].v
    BY <1>1, <1>2, <1>4 DEF TypeInv, ZeileTyp, Eigen
  <2>2. /\ alter[v] = "ungesendet" /\ inhalt[v] = {} /\ ereignisse[v] = 0 /\ v <= begonnen
        /\ zeile.token = r
    BY <1>1, <1>4, <2>1, NullIstKeiner DEF ZeileInv, Eigen
  <2>3. /\ zeile' \in ZeileTyp /\ zeile'.v = v /\ zeile'.gesendet = TRUE
        /\ zeile'.lease = TRUE /\ zeile'.token = r
    BY <1>1, <1>4, <2>1, <2>2 DEF TypeInv, ZeileTyp
  <2>4. /\ alter' \in [Vorgaenge -> {"ungesendet", "fenster", "zu", "spaet"}]
        /\ alter'[v] = "fenster" /\ \A u \in Vorgaenge \ {v} : alter'[u] = alter[u]
    BY <1>1, <1>4, <2>1 DEF TypeInv
  <2>5. /\ inhalt' \in [Vorgaenge -> SUBSET Anfragen]
        /\ inhalt'[v] \subseteq {r} /\ (r \in inhalt'[v] => anfrage[r].mit)
        /\ \A u \in Vorgaenge \ {v} : inhalt'[u] = inhalt[u]
    BY <1>1, <1>4, <2>1 DEF TypeInv
  <2> DEFINE a == anfrage[r]
             n == [a EXCEPT !.pc = "ruft", !.erste = TRUE]
  <2>6. /\ n \in AnfrageTyp /\ n.pc = "ruft" /\ n.erste = TRUE /\ n.v = a.v
        /\ n.ausgang = a.ausgang /\ n.ereignis = a.ereignis
    <3>1. a \in AnfrageTyp
      BY <1>1 DEF TypeInv
    <3> QED
      BY <3>1 DEF AnfrageTyp
  <2>7. anfrage' = [anfrage EXCEPT ![r] = n]
    BY <1>4
  <2> HIDE DEF n
  <2>8. NurAnfrage(r) /\ anfrage'[r] = n
    BY <1>1, <2>6, <2>7 DEF TypeInv
  <2>9. UNCHANGED <<anlage, post, kennt, ereignisse, kanzlei, begonnen, frueh>>
    BY DEF Gesendet, spur
  <2>10. anfrage[r].mit => anlage[r].stand # "keine"
    BY <1>1 DEF Gesendet, OhneAnlage, TypeInv, AnlageTyp, AnfrageInv, AnfrageStimmt
  <2>11. TypeInv'
    BY <1>1, <2>3, <2>4, <2>5, <2>8, <2>9 DEF TypeInv
  <2>12. ZeileInv'
    BY <1>1, <2>1, <2>2, <2>3, <2>4, <2>5, <2>9, NullIstKeiner, AnfragenAssumption
       DEF ZeileInv, TypeInv
  <2>13. AnfrageInv'
    BY <1>1, <1>2, <2>1, <2>2, <2>6, <2>8, <2>9 DEF AnfrageInv, AnfrageStimmt
  <2>14. EreignisInv'
    BY <1>1, <2>2, <2>4, <2>9 DEF EreignisInv
  <2>15. RufInv'
    <3> SUFFICES ASSUME NEW b \in Anfragen
                 PROVE  RufStimmt(b)'
      BY DEF RufInv
    <3>1. RufStimmt(b) /\ anfrage[b] \in AnfrageTyp
      BY <1>1 DEF RufInv, TypeInv
    <3>2. b # r => (Traegt(b) => Traegt(b)')
      <4> HAVE b # r
      <4> HAVE Traegt(b)
      <4>1. anfrage[b].ereignis \in Vorgaenge \ {v} /\ anfrage[b].v \in Vorgaenge \ {v}
        BY <2>2, <3>1 DEF AnfrageTyp, Traegt
      <4> QED
        BY <2>4, <2>5, <2>8, <2>9, <4>1 DEF Traegt
    <3>3. CASE b # r
      BY <2>4, <2>8, <2>9, <3>1, <3>2, <3>3 DEF RufStimmt, Unterwegs, AnfrageTyp
    <3>4. CASE b = r
      BY <1>2, <2>1, <2>4, <2>6, <2>8, <2>9, <3>4, NullIstKeiner DEF RufStimmt, Unterwegs
    <3> QED
      BY <3>3, <3>4
  <2>16. AnlageInv'
    <3> SUFFICES ASSUME NEW b \in Anfragen
                 PROVE  AnlageStimmt(b)'
      BY DEF AnlageInv
    <3>1. AnlageStimmt(b) /\ AnlageStimmt(r) /\ frueh' = frueh
      BY <1>1, <2>9 DEF AnlageInv
    <3>2. CASE b # r
      BY <2>1, <2>3, <2>4, <2>5, <2>8, <2>9, <3>1, <3>2 DEF AnlageStimmt
    <3>3. CASE b = r
      <4>1. \A u \in Vorgaenge : r \notin inhalt[u]
        BY <1>2, <3>1 DEF AnlageStimmt
      <4>2. anlage[r].stand \in {"keine", "gebunden"}
        BY <1>2, <1>4, <2>1, <3>1 DEF AnlageStimmt
      <4> QED
        BY <2>1, <2>3, <2>5, <2>6, <2>8, <2>9, <2>10, <3>3, <4>1, <4>2 DEF AnlageStimmt
    <3> QED
      BY <3>2, <3>3
  <2>17. ErsterInv'
    <3> SUFFICES ASSUME NEW b \in Anfragen, Ungehoert(b)'
                 PROVE  ErsterStimmt(b)'
      BY DEF ErsterInv, ErsterStimmt
    <3>1. b = r
      BY <2>3 DEF Ungehoert, Eigen
    <3>2. \A q \in Anfragen \ {r} :
            anfrage[q].v = v => anfrage[q].pc # "ruft" /\ post[q] # "unterwegs"
      BY <1>1, <2>2 DEF RufInv, RufStimmt, Unterwegs
    <3> QED
      BY <2>1, <2>2, <2>6, <2>8, <2>9, <3>1, <3>2 DEF ErsterStimmt
  <2>18. KanzleiInv'
    <3>1. kanzlei.pc # "ruht" => kanzlei.r # r /\ kanzlei.r \in Anfragen
      BY <1>1, <1>2, <1>4 DEF KanzleiInv, Eigen, TypeInv
    <3>2. kanzlei.pc # "ruht" =>
            /\ anfrage'[kanzlei.r] = anfrage[kanzlei.r]
            /\ \A u \in Vorgaenge : kanzlei.r \in inhalt'[u] => u # v /\ kanzlei.r \in inhalt[u]
      BY <2>5, <2>8, <3>1
    <3> QED
      BY <1>1, <2>3, <2>4, <2>9, <3>1, <3>2 DEF KanzleiInv
  <2> QED
    BY <2>11, <2>12, <2>13, <2>14, <2>15, <2>16, <2>17, <2>18 DEF MeldeInv
<1> QED
  BY <1>3, <1>4 DEF Gesendet

-----------------------------------------------------------------------------
\* A new Vorgang, under a key without a row or with one never sent.
LEMMA BeginntHaelt ==
  ASSUME MeldeInv, NEW r \in Anfragen, Beginnt(r), anfrage[r].pc \in {"beginnt", "loestAuf"},
         ~ zeile.gesendet, anlage' \in [Anfragen -> AnlageTyp],
         \A q \in Anfragen :
           \/ anlage'[q] = anlage[q]
           \/ /\ anlage[q].stand = "gebunden"
              /\ anlage'[q].stand = "frei" /\ anlage'[q].ereignis = 0,
         UNCHANGED <<alter, post, dienst, kanzlei, frueh>>
  PROVE  MeldeInv'
<1> USE DEF NurAnfrage, dienst
<1>1. TypeInv /\ ZeileInv /\ AnfrageInv /\ EreignisInv /\ RufInv /\ AnlageInv /\ ErsterInv
      /\ KanzleiInv
  BY DEF MeldeInv
<1>2. PICK v \in Vorgaenge : v = begonnen + 1 /\ begonnen' = v
  BY <1>1, BoundsAssumption DEF Beginnt, Vorgaenge, TypeInv
<1>3. /\ begonnen \in Nat /\ begonnen' \in 0..MaxVorgaenge
      /\ \A u \in Vorgaenge \union {0} : u <= begonnen => u # v /\ u <= begonnen'
  BY <1>1, <1>2, NullIstKeiner, BoundsAssumption DEF Vorgaenge, TypeInv
<1>4. /\ zeile' \in ZeileTyp /\ zeile'.v = v /\ zeile'.gesendet = FALSE
      /\ zeile'.lease = TRUE /\ zeile'.token = r
  BY <1>2 DEF Beginnt, ZeileTyp
<1> DEFINE a == anfrage[r]
           n == [a EXCEPT !.pc = "legtAb", !.v = v]
<1>5. /\ n \in AnfrageTyp /\ n.pc = "legtAb" /\ n.erste = a.erste /\ n.v = v
      /\ n.ausgang = a.ausgang /\ n.ereignis = a.ereignis
  <2>1. a \in AnfrageTyp
    BY <1>1 DEF TypeInv
  <2> QED
    BY <2>1 DEF AnfrageTyp
<1>6. anfrage' = [anfrage EXCEPT ![r] = n]
  BY <1>2 DEF Beginnt
<1> HIDE DEF n
<1>7. NurAnfrage(r) /\ anfrage'[r] = n
  BY <1>1, <1>5, <1>6 DEF TypeInv
<1>8. /\ post[r] = "keine" /\ ~ anfrage[r].erste /\ anlage[r].stand = "keine"
      /\ anfrage[r].ausgang = "keiner" /\ anlage'[r] = anlage[r]
  BY <1>1, RuhigGeht DEF Vorher, AnfrageInv, AnfrageStimmt
<1>9. TypeInv'
  BY <1>1, <1>3, <1>4, <1>7 DEF TypeInv
<1>10. ZeileInv'
  BY <1>1, <1>2, <1>3, <1>4, NullIstKeiner, AnfragenAssumption DEF ZeileInv
<1>11. AnfrageInv'
  <2> SUFFICES ASSUME NEW b \in Anfragen
               PROVE  AnfrageStimmt(b)'
    BY DEF AnfrageInv
  <2>1. AnfrageStimmt(b) /\ anfrage[b].v \in Vorgaenge \union {0}
    BY <1>1 DEF AnfrageInv, TypeInv, AnfrageTyp
  <2>2. CASE b # r
    BY <1>3, <1>7, <2>1, <2>2 DEF AnfrageStimmt
  <2>3. CASE b = r
    BY <1>2, <1>3, <1>5, <1>7, <1>8, <2>1, <2>3, NullIstKeiner DEF AnfrageStimmt
  <2> QED
    BY <2>2, <2>3
<1>12. EreignisInv'
  BY <1>1 DEF EreignisInv
<1>13. RufInv'
  BY <1>1, <1>5, <1>7, <1>8 DEF RufInv, RufStimmt, Unterwegs, Traegt
<1>14. AnlageInv'
  <2> SUFFICES ASSUME NEW b \in Anfragen
               PROVE  AnlageStimmt(b)'
    BY DEF AnlageInv
  <2>1. AnlageStimmt(b) /\ AnlageStimmt(r) /\ anfrage[b].v <= begonnen
        /\ anfrage[b].v \in Vorgaenge \union {0}
    BY <1>1 DEF AnlageInv, AnfrageInv, AnfrageStimmt, TypeInv, AnfrageTyp
  <2>2. \A u \in Vorgaenge : b \in inhalt[u] => zeile.v # u
    BY <1>1, NullIstKeiner DEF ZeileInv
  <2>3. CASE b # r
    <3>1. anfrage'[b] = anfrage[b] /\ zeile'.v # anfrage[b].v
      BY <1>3, <1>4, <1>7, <2>1, <2>3
    <3> QED
      BY <2>1, <2>2, <3>1 DEF AnlageStimmt
  <2>4. CASE b = r
    BY <1>5, <1>7, <1>8, <2>1, <2>4 DEF AnlageStimmt
  <2> QED
    BY <2>3, <2>4
<1>15. ErsterInv'
  BY <1>4, <1>5, <1>7 DEF ErsterInv, ErsterStimmt, Ungehoert, Eigen
<1>16. KanzleiInv'
  <2> SUFFICES ASSUME kanzlei.pc # "ruht"
               PROVE  KanzleiInv'
    BY DEF KanzleiInv
  <2>1. PICK k \in Anfragen : k = kanzlei.r /\ k # r
    BY <1>1, <1>8 DEF KanzleiInv, TypeInv
  <2>2. anfrage'[k] = anfrage[k] /\ zeile'.v # anfrage[k].v
    BY <1>1, <1>3, <1>4, <1>7, <2>1 DEF AnfrageInv, AnfrageStimmt, TypeInv, AnfrageTyp
  <2>3. anlage'[k].stand # "keine"
    BY <1>1, <2>1 DEF KanzleiInv
  <2> QED
    BY <1>1, <2>1, <2>2, <2>3 DEF KanzleiInv
<1> QED
  BY <1>9, <1>10, <1>11, <1>12, <1>13, <1>14, <1>15, <1>16 DEF MeldeInv

LEMMA BeginneHaelt ==
  ASSUME MeldeInv, NEW r \in Anfragen, Beginne(r)
  PROVE  MeldeInv'
<1>1. TypeInv /\ ZeileInv
  BY DEF MeldeInv
<1>2. CASE Endet(r) /\ UNCHANGED <<zeile, begonnen>>
  BY <1>2, EndetStill DEF Beginne, Vorher, spur
<1>3. CASE zeile.v = 0 /\ Beginnt(r)
  BY <1>1, <1>3, BeginntHaelt DEF Beginne, ZeileInv, TypeInv
<1> QED
  BY <1>2, <1>3 DEF Beginne

LEMMA LoeseAufHaelt ==
  ASSUME MeldeInv, NEW r \in Anfragen, LoeseAuf(r)
  PROVE  MeldeInv'
<1>1. CASE Endet(r) /\ UNCHANGED <<zeile, anlage, begonnen>>
  BY <1>1, EndetStill DEF LoeseAuf, Vorher, spur
<1>2. CASE ~ zeile.gesendet /\ Setze(Offene, "frei", 0) /\ Beginnt(r)
  <2>1. /\ anlage' \in [Anfragen -> AnlageTyp]
        /\ \A q \in Anfragen :
             \/ anlage'[q] = anlage[q]
             \/ /\ anlage[q].stand = "gebunden"
                /\ anlage'[q].stand = "frei" /\ anlage'[q].ereignis = 0
    BY <1>2, SetzeOffene DEF MeldeInv
  <2> QED
    BY <1>2, <2>1, BeginntHaelt DEF LoeseAuf
<1> QED
  BY <1>1, <1>2 DEF LoeseAuf

-----------------------------------------------------------------------------
\* The row goes, by the conclusion of a request or by the worker.
LEMMA ZeileFaellt ==
  ASSUME MeldeInv, zeile' = Keine, anlage' \in [Anfragen -> AnlageTyp],
         \A q \in Anfragen :
           \/ anlage'[q] = anlage[q]
           \/ /\ anlage[q].stand = "gebunden" /\ anlage'[q].stand \in {"frei", "zugeordnet"}
              /\ anlage'[q].stand = "zugeordnet" <=> anlage'[q].ereignis # 0,
         \A q \in Anfragen, u \in Vorgaenge :
           q \in inhalt[u] /\ anlage'[q].stand = "gebunden" /\ u \notin frueh' =>
             alter[u] = "spaet",
         frueh \subseteq frueh', frueh' \subseteq Vorgaenge,
         anfrage' \in [Anfragen -> AnfrageTyp],
         \A q \in Anfragen :
           \/ anfrage'[q] = anfrage[q]
           \/ /\ anfrage[q].pc = "schliesst" /\ anfrage'[q].pc = "ende"
              /\ anfrage'[q].v = anfrage[q].v /\ anfrage'[q].erste = FALSE
              /\ anfrage'[q].ausgang = "keiner",
         UNCHANGED <<alter, post, dienst, kanzlei, begonnen>>
  PROVE  MeldeInv'
<1> USE DEF dienst
<1>1. TypeInv /\ ZeileInv /\ AnfrageInv /\ EreignisInv /\ RufInv /\ AnlageInv /\ ErsterInv
      /\ KanzleiInv
  BY DEF MeldeInv
<1>2. /\ zeile' \in ZeileTyp /\ zeile'.v = 0 /\ zeile'.gesendet = FALSE
      /\ zeile'.lease = FALSE /\ zeile'.token = 0
  BY DEF Keine, ZeileTyp
<1>3. TypeInv'
  BY <1>1, <1>2 DEF TypeInv
<1>4. ZeileInv'
  BY <1>1, <1>2 DEF ZeileInv, TypeInv
<1>5. AnfrageInv'
  <2> SUFFICES ASSUME NEW b \in Anfragen
               PROVE  AnfrageStimmt(b)'
    BY DEF AnfrageInv
  <2>1. AnfrageStimmt(b)
    BY <1>1 DEF AnfrageInv
  <2>2. /\ anlage[b].stand = "keine" <=> anlage'[b].stand = "keine"
        /\ anlage'[b].stand = "zugeordnet" <=> anlage'[b].ereignis # 0
    BY <2>1 DEF AnfrageStimmt
  <2> QED
    BY <2>1, <2>2 DEF AnfrageStimmt
<1>6. EreignisInv'
  BY <1>1 DEF EreignisInv
<1>7. RufInv'
  <2> SUFFICES ASSUME NEW b \in Anfragen
               PROVE  RufStimmt(b)'
    BY DEF RufInv
  <2>1. RufStimmt(b) /\ AnfrageStimmt(b)
    BY <1>1 DEF RufInv, AnfrageInv
  <2> QED
    BY <2>1 DEF RufStimmt, Unterwegs, Traegt, AnfrageStimmt
<1>8. AnlageInv'
  <2> SUFFICES ASSUME NEW b \in Anfragen
               PROVE  AnlageStimmt(b)'
    BY DEF AnlageInv
  <2>1. AnlageStimmt(b) /\ AnfrageStimmt(b)
    BY <1>1 DEF AnlageInv, AnfrageInv
  <2> QED
    BY <1>2, <2>1 DEF AnlageStimmt, AnfrageStimmt
<1>9. ErsterInv'
  BY <1>2, AnfragenAssumption DEF ErsterInv, ErsterStimmt, Ungehoert, Eigen
<1>10. KanzleiInv'
  <2> SUFFICES ASSUME kanzlei.pc # "ruht"
               PROVE  KanzleiInv'
    BY DEF KanzleiInv
  <2>1. PICK k \in Anfragen : k = kanzlei.r
    BY <1>1 DEF KanzleiInv, TypeInv
  <2>2. AnfrageStimmt(k) /\ anlage'[k].stand # "keine"
    BY <1>1, <2>1 DEF AnfrageInv, KanzleiInv
  <2> QED
    BY <1>1, <1>2, <2>1, <2>2 DEF KanzleiInv, AnfrageStimmt
<1> QED
  BY <1>3, <1>4, <1>5, <1>6, <1>7, <1>8, <1>9, <1>10 DEF MeldeInv

\* What is open of the row that goes was sent too early to be free, or late enough.
LEMMA EntfaelltFrueh ==
  ASSUME MeldeInv, zeile.v # 0, Entfaellt, anlage' = anlage, inhalt' = inhalt
  PROVE  /\ frueh \subseteq frueh' /\ frueh' \subseteq Vorgaenge
         /\ \A q \in Anfragen, u \in Vorgaenge :
              q \in inhalt[u] /\ anlage'[q].stand = "gebunden" /\ u \notin frueh' =>
                alter[u] = "spaet"
<1>1. TypeInv /\ ZeileInv /\ AnlageInv
  BY DEF MeldeInv
<1>2. frueh \subseteq frueh' /\ frueh' \subseteq Vorgaenge
  BY <1>1 DEF Entfaellt, TypeInv, ZeileTyp, ZeileInv
<1>3. ASSUME NEW q \in Anfragen, NEW u \in Vorgaenge,
             q \in inhalt[u], anlage[q].stand = "gebunden", u \notin frueh'
      PROVE  alter[u] = "spaet"
  <2>1. zeile.v = u \/ alter[u] = "spaet"
    BY <1>1, <1>2, <1>3 DEF AnlageInv, AnlageStimmt
  <2>2. zeile.v = u => alter[u] \notin {"fenster", "zu"}
    BY <1>3 DEF Entfaellt
  <2>3. alter[u] # "ungesendet"
    BY <1>1, <1>3 DEF ZeileInv
  <2> QED
    BY <1>1, <2>1, <2>2, <2>3 DEF TypeInv
<1> QED
  BY <1>2, <1>3

LEMMA SchliesseHaelt ==
  ASSUME MeldeInv, NEW r \in Anfragen, Schliesse(r)
  PROVE  MeldeInv'
<1>1. TypeInv /\ ZeileInv
  BY DEF MeldeInv
<1>2. /\ Fertig(r) /\ anfrage[r].pc = "schliesst"
      /\ UNCHANGED <<alter, post, dienst, kanzlei, begonnen>>
  BY <1>1, EndetFertig DEF Schliesse
<1>3. /\ anfrage' \in [Anfragen -> AnfrageTyp]
      /\ \A q \in Anfragen :
           \/ anfrage'[q] = anfrage[q]
           \/ /\ anfrage[q].pc = "schliesst" /\ anfrage'[q].pc = "ende"
              /\ anfrage'[q].v = anfrage[q].v /\ anfrage'[q].erste = FALSE
              /\ anfrage'[q].ausgang = "keiner"
  BY <1>2 DEF Fertig, NurAnfrage
<1>4. CASE Hand(r) /\ UNCHANGED <<anlage, frueh>>
  <2>1. post[r] \in {"unterwegs", "keine"}
    BY <1>1, <1>2 DEF MeldeInv, AnfrageInv, AnfrageStimmt, TypeInv
  <2>2. Leise(r)
    BY <1>1, <1>2, <1>4 DEF Leise, TypeInv, Fertig, spur
  <2> QED
    BY <1>2, <1>4, <2>1, <2>2, RuhigerSchritt DEF Ruhig, Fertig, Stellen
<1>5. CASE /\ zeile' = Keine /\ frueh' = frueh
           /\ \E stand \in {"frei", "zugeordnet"}, e \in Vorgaenge \union {0} :
                Setze(Offene, stand, e) /\ (stand = "zugeordnet" <=> e # 0)
  <2>1. PICK stand \in {"frei", "zugeordnet"}, e \in Vorgaenge \union {0} :
          Setze(Offene, stand, e) /\ (stand = "zugeordnet" <=> e # 0)
    BY <1>5
  <2>2. /\ anlage' \in [Anfragen -> AnlageTyp]
        /\ \A q \in Anfragen :
              \/ anlage'[q] = anlage[q] /\ anlage[q].stand # "gebunden"
              \/ /\ anlage[q].stand = "gebunden"
                 /\ anlage'[q].stand = stand /\ anlage'[q].ereignis = e
    BY <1>1, <2>1, SetzeOffene
  <2>3. \A q \in Anfragen :
          /\ \/ anlage'[q] = anlage[q]
             \/ /\ anlage[q].stand = "gebunden" /\ anlage'[q].stand \in {"frei", "zugeordnet"}
                /\ anlage'[q].stand = "zugeordnet" <=> anlage'[q].ereignis # 0
          /\ anlage'[q].stand # "gebunden"
    BY <2>1, <2>2
  <2>4. frueh \subseteq frueh' /\ frueh' \subseteq Vorgaenge
    BY <1>1, <1>5 DEF TypeInv
  <2> QED
    BY <1>2, <1>3, <1>5, <2>2, <2>3, <2>4, ZeileFaellt
<1>6. CASE zeile.v # 0 /\ Entfaellt /\ anlage' = anlage
  <2>1. anlage' \in [Anfragen -> AnlageTyp]
    BY <1>1, <1>6 DEF TypeInv
  <2>2. /\ frueh \subseteq frueh' /\ frueh' \subseteq Vorgaenge
        /\ \A q \in Anfragen, u \in Vorgaenge :
             q \in inhalt[u] /\ anlage'[q].stand = "gebunden" /\ u \notin frueh' =>
               alter[u] = "spaet"
    BY <1>2, <1>6, EntfaelltFrueh DEF dienst
  <2>3. zeile' = Keine /\ \A q \in Anfragen : anlage'[q] = anlage[q]
    BY <1>6 DEF Entfaellt
  <2> QED
    BY <1>2, <1>3, <2>1, <2>2, <2>3, ZeileFaellt
<1>7. CASE Angenommen(r)
  <2>1. anfrage[r].ereignis \in Vorgaenge \union {0} /\ anfrage[r].ereignis # 0
    BY <1>1, <1>7 DEF Angenommen, MeldeInv, RufInv, RufStimmt, Traegt, TypeInv, AnfrageTyp
  <2>2. UNCHANGED zeile => Hand(r)
    BY <1>1 DEF Hand, TypeInv, ZeileInv
  <2> QED
    BY <1>4, <1>5, <1>7, <2>1, <2>2 DEF Angenommen
<1>8. CASE Freigegeben(r)
  <2>1. UNCHANGED zeile => Hand(r)
    BY <1>1 DEF Hand, TypeInv, ZeileInv
  <2> QED
    BY <1>4, <1>5, <1>8, <2>1 DEF Freigegeben
<1>9. CASE Ungeklaert(r)
  <2>1. UNCHANGED zeile => Hand(r)
    BY <1>1 DEF Hand, TypeInv, ZeileInv
  <2> QED
    BY <1>1, <1>4, <1>6, <1>9, <2>1, AnfragenAssumption DEF Ungeklaert, Eigen, ZeileInv
<1>10. CASE Offen(r)
  <2>1. CASE Eigen(r)
    <3>1. zeile' = [zeile EXCEPT !.lease = FALSE, !.token = 0]
      BY <1>10, <2>1 DEF Offen
    <3>2. zeile.v # 0
      BY <1>1, <2>1, AnfragenAssumption DEF Eigen, ZeileInv
    <3>3. Hand(r)
      BY <1>1, <3>1, <3>2 DEF Hand, TypeInv, ZeileTyp
    <3> QED
      BY <1>4, <1>10, <3>3 DEF Offen
  <2>2. CASE ~ Eigen(r)
    BY <1>1, <1>4, <1>10, <2>2 DEF Offen, Hand, TypeInv, ZeileInv
  <2> QED
    BY <2>1, <2>2
<1> QED
  BY <1>7, <1>8, <1>9, <1>10 DEF Schliesse

LEMMA BereinigeHaelt ==
  ASSUME MeldeInv, Bereinige
  PROVE  MeldeInv'
<1>1. /\ anlage' \in [Anfragen -> AnlageTyp] /\ anfrage' \in [Anfragen -> AnfrageTyp]
      /\ UNCHANGED <<anlage, anfrage, alter, post, dienst, kanzlei, begonnen>>
      /\ zeile' = Keine
  BY DEF Bereinige, Entfaellt, MeldeInv, TypeInv
<1>2. /\ frueh \subseteq frueh' /\ frueh' \subseteq Vorgaenge
      /\ \A q \in Anfragen, u \in Vorgaenge :
           q \in inhalt[u] /\ anlage'[q].stand = "gebunden" /\ u \notin frueh' =>
             alter[u] = "spaet"
  BY <1>1, EntfaelltFrueh DEF dienst, Bereinige, Bereinigbar
<1>3. \A q \in Anfragen : anlage'[q] = anlage[q] /\ anfrage'[q] = anfrage[q]
  BY <1>1
<1> QED
  BY <1>1, <1>2, <1>3, ZeileFaellt

-----------------------------------------------------------------------------
LEMMA PruefeHaelt ==
  ASSUME MeldeInv, NEW r \in Anfragen, Pruefe(r)
  PROVE  MeldeInv'
<1> USE DEF dienst, spur
<1>1. TypeInv /\ ZeileInv /\ AnfrageInv /\ EreignisInv /\ RufInv /\ AnlageInv /\ ErsterInv
      /\ KanzleiInv
  BY DEF MeldeInv
<1>2. /\ kanzlei' = [pc |-> "fragt", r |-> r]
      /\ UNCHANGED <<zeile, alter, anlage, anfrage, post, inhalt, kennt, ereignisse, begonnen,
                     frueh>>
      /\ anlage[r].stand = "gebunden" /\ ~ Sperrt
  BY DEF Pruefe, Offene
<1>3. TypeInv' /\ ZeileInv' /\ EreignisInv'
  BY <1>1, <1>2 DEF TypeInv, ZeileInv, EreignisInv
<1>4. AnfrageInv' /\ RufInv' /\ AnlageInv'
  BY <1>1, <1>2 DEF AnfrageInv, AnfrageStimmt, RufInv, RufStimmt, Unterwegs, Traegt, AnlageInv,
                    AnlageStimmt
<1>5. ErsterInv'
  BY <1>1, <1>2 DEF ErsterInv, ErsterStimmt, Ungehoert, Eigen
<1>6. KanzleiInv'
  <2>1. anfrage[r].pc = "legtAb" => zeile.v # anfrage[r].v \/ zeile.gesendet
    BY <1>1, <1>2 DEF Sperrt, AnfrageInv, AnfrageStimmt
  <2>2. \A v \in Vorgaenge : r \in inhalt[v] /\ v \notin frueh => alter[v] = "spaet"
    <3>1. AnlageStimmt(r)
      BY <1>1 DEF AnlageInv
    <3>2. \A v \in Vorgaenge : zeile.v = v => alter[v] = "spaet"
      BY <1>2, NullIstKeiner DEF Sperrt
    <3> QED
      BY <1>2, <3>1, <3>2 DEF AnlageStimmt
  <2>3. kanzlei'.pc = "fragt" /\ kanzlei'.r = r /\ r # 0
    BY <1>2, AnfragenAssumption
  <2> QED
    BY <1>2, <2>1, <2>2, <2>3 DEF KanzleiInv
<1> QED
  BY <1>3, <1>4, <1>5, <1>6 DEF MeldeInv

LEMMA FrageHaelt ==
  ASSUME MeldeInv, Frage
  PROVE  MeldeInv'
<1> USE DEF dienst, spur
<1>1. TypeInv /\ ZeileInv /\ AnfrageInv /\ EreignisInv /\ RufInv /\ AnlageInv /\ ErsterInv
      /\ KanzleiInv
  BY DEF MeldeInv
<1>2. /\ UNCHANGED <<zeile, alter, anlage, anfrage, post, inhalt, kennt, ereignisse, begonnen,
                     frueh>>
      /\ kanzlei.pc = "fragt"
      /\ \/ kanzlei' = Frei
         \/ /\ kanzlei' = [kanzlei EXCEPT !.pc = "gibtFrei"]
            /\ ~ \E v \in Vorgaenge : Fuehrt(v, kanzlei.r)
  BY DEF Frage
<1>3. /\ kanzlei' \in [pc : {"ruht", "fragt", "gibtFrei"}, r : Anfragen \union {0}]
      /\ \/ kanzlei'.pc = "ruht"
         \/ kanzlei'.r = kanzlei.r /\ kanzlei'.pc = "gibtFrei"
  BY <1>1, <1>2 DEF TypeInv, Frei
<1>4. TypeInv' /\ ZeileInv' /\ EreignisInv'
  BY <1>1, <1>2, <1>3 DEF TypeInv, ZeileInv, EreignisInv
<1>5. AnfrageInv' /\ RufInv' /\ AnlageInv'
  BY <1>1, <1>2 DEF AnfrageInv, AnfrageStimmt, RufInv, RufStimmt, Unterwegs, Traegt, AnlageInv,
                    AnlageStimmt
<1>6. ErsterInv'
  BY <1>1, <1>2 DEF ErsterInv, ErsterStimmt, Ungehoert, Eigen
<1>7. KanzleiInv'
  <2>1. CASE kanzlei'.pc = "ruht"
    BY <2>1 DEF KanzleiInv
  <2>2. CASE kanzlei'.pc # "ruht"
    <3>1. kanzlei'.r = kanzlei.r /\ ~ \E v \in Vorgaenge : Fuehrt(v, kanzlei.r)
      BY <1>2, <1>3, <2>2 DEF Frei
    <3>2. \A v \in Vorgaenge : kanzlei.r \in inhalt[v] => ereignisse[v] = 0
      BY <1>1, <3>1 DEF Fuehrt, TypeInv
    <3> QED
      BY <1>1, <1>2, <3>1, <3>2 DEF KanzleiInv
  <2> QED
    BY <2>1, <2>2
<1> QED
  BY <1>4, <1>5, <1>6, <1>7 DEF MeldeInv

\* One open attachment is decided by hand.
LEMMA VonHand ==
  ASSUME MeldeInv, NEW r \in Anfragen, NEW stand \in {"freiKanzlei", "zugeordnet"},
         NEW e \in Vorgaenge \union {0}, stand = "zugeordnet" <=> e # 0,
         Setze({r}, stand, e), anlage[r].stand = "gebunden",
         stand = "freiKanzlei" =>
           \A v \in Vorgaenge :
             r \in inhalt[v] /\ v \notin frueh => alter[v] = "spaet" /\ ereignisse[v] = 0,
         ~ (anfrage[r].pc = "legtAb" /\ zeile.v = anfrage[r].v /\ ~ zeile.gesendet),
         kanzlei' \in {kanzlei, Frei},
         UNCHANGED <<zeile, alter, anfrage, post, dienst, spur>>
  PROVE  MeldeInv'
<1> USE DEF dienst, spur
<1>1. TypeInv /\ ZeileInv /\ AnfrageInv /\ EreignisInv /\ RufInv /\ AnlageInv /\ ErsterInv
      /\ KanzleiInv
  BY DEF MeldeInv
<1>2. /\ anlage' \in [Anfragen -> AnlageTyp]
      /\ anlage'[r].stand = stand /\ anlage'[r].ereignis = e
      /\ \A q \in Anfragen \ {r} : anlage'[q] = anlage[q]
  BY <1>1, SetzeEine, ZenonT(40)
<1>3. TypeInv'
  <2>1. kanzlei' \in [pc : {"ruht", "fragt", "gibtFrei"}, r : Anfragen \union {0}]
    BY <1>1 DEF TypeInv, Frei
  <2> QED
    BY <1>1, <1>2, <2>1 DEF TypeInv
<1>4. ZeileInv' /\ EreignisInv'
  BY <1>1 DEF ZeileInv, EreignisInv
<1>5. AnfrageInv'
  <2> SUFFICES ASSUME NEW b \in Anfragen
               PROVE  AnfrageStimmt(b)'
    BY DEF AnfrageInv
  <2>1. AnfrageStimmt(b)
    BY <1>1 DEF AnfrageInv
  <2>2. CASE b = r
    BY <1>2, <2>1, <2>2 DEF AnfrageStimmt
  <2>3. CASE b # r
    BY <1>2, <2>1, <2>3 DEF AnfrageStimmt
  <2> QED
    BY <2>2, <2>3
<1>6. RufInv'
  BY <1>1 DEF RufInv, RufStimmt, Unterwegs, Traegt
<1>7. AnlageInv'
  <2> SUFFICES ASSUME NEW b \in Anfragen
               PROVE  AnlageStimmt(b)'
    BY DEF AnlageInv
  <2>1. AnlageStimmt(b)
    BY <1>1 DEF AnlageInv
  <2>2. CASE b = r
    BY <1>2, <2>1, <2>2 DEF AnlageStimmt
  <2>3. CASE b # r
    BY <1>2, <2>1, <2>3 DEF AnlageStimmt
  <2> QED
    BY <2>2, <2>3
<1>8. ErsterInv'
  BY <1>1 DEF ErsterInv, ErsterStimmt, Ungehoert, Eigen
<1>9. KanzleiInv'
  <2>1. CASE kanzlei' = Frei
    BY <2>1 DEF KanzleiInv, Frei
  <2>2. CASE kanzlei' = kanzlei
    <3>1. kanzlei.pc # "ruht" => anlage'[kanzlei.r].stand # "keine"
      BY <1>1, <1>2 DEF KanzleiInv, TypeInv
    <3> QED
      BY <1>1, <2>2, <3>1 DEF KanzleiInv
  <2> QED
    BY <2>1, <2>2
<1> QED
  BY <1>3, <1>4, <1>5, <1>6, <1>7, <1>8, <1>9 DEF MeldeInv

LEMMA GibFreiHaelt ==
  ASSUME MeldeInv, GibFrei
  PROVE  MeldeInv'
<1> USE DEF dienst, spur
<1>1. TypeInv /\ ZeileInv /\ AnfrageInv /\ EreignisInv /\ RufInv /\ AnlageInv /\ ErsterInv
      /\ KanzleiInv
  BY DEF MeldeInv
<1>2. PICK r \in Anfragen : r = kanzlei.r
  BY <1>1 DEF KanzleiInv, TypeInv, GibFrei
<1>3. CASE r \in Offene /\ Setze({r}, "freiKanzlei", 0)
  BY <1>1, <1>2, <1>3, VonHand DEF GibFrei, KanzleiInv, Offene
<1>4. CASE UNCHANGED anlage
  <2>1. UNCHANGED <<zeile, alter, anlage, anfrage, post, inhalt, kennt, ereignisse, begonnen,
                    frueh>> /\ kanzlei' = Frei
    BY <1>4 DEF GibFrei
  <2>2. TypeInv' /\ ZeileInv' /\ EreignisInv' /\ KanzleiInv'
    BY <1>1, <2>1 DEF TypeInv, ZeileInv, EreignisInv, KanzleiInv, Frei
  <2>3. AnfrageInv' /\ RufInv' /\ AnlageInv'
    BY <1>1, <2>1 DEF AnfrageInv, AnfrageStimmt, RufInv, RufStimmt, Unterwegs, Traegt, AnlageInv,
                      AnlageStimmt
  <2>4. ErsterInv'
    BY <1>1, <2>1 DEF ErsterInv, ErsterStimmt, Ungehoert, Eigen
  <2> QED
    BY <2>2, <2>3, <2>4 DEF MeldeInv
<1> QED
  BY <1>2, <1>3, <1>4 DEF GibFrei

LEMMA ZuordneHaelt ==
  ASSUME MeldeInv, NEW r \in Anfragen, NEW v \in Vorgaenge, Zuordne(r, v)
  PROVE  MeldeInv'
<1>1. anfrage[r].pc # "legtAb"
  BY DEF MeldeInv, AnlageInv, AnlageStimmt, Zuordne, Fuehrt
<1> QED
  BY <1>1, VonHand, NullIstKeiner DEF Zuordne, Offene

-----------------------------------------------------------------------------
LEMMA AltereHaelt ==
  ASSUME MeldeInv, NEW v \in Vorgaenge, Altere(v)
  PROVE  MeldeInv'
<1> USE DEF dienst, spur
<1>1. TypeInv /\ ZeileInv /\ AnfrageInv /\ EreignisInv /\ RufInv /\ AnlageInv /\ ErsterInv
      /\ KanzleiInv
  BY DEF MeldeInv
<1>2. /\ UNCHANGED <<zeile, anlage, anfrage, post, inhalt, kennt, ereignisse, kanzlei, begonnen,
                     frueh>>
      /\ alter' \in [Vorgaenge -> {"ungesendet", "fenster", "zu", "spaet"}]
      /\ \A u \in Vorgaenge \ {v} : alter'[u] = alter[u]
      /\ \/ alter[v] = "fenster" /\ alter'[v] = "zu"
         \/ /\ alter[v] = "zu" /\ alter'[v] = "spaet"
            /\ \A r \in Anfragen : anfrage[r].v = v => ~ Uebermittelt(r)
  BY <1>1 DEF Altere, TypeInv
<1>3. TypeInv' /\ ZeileInv' /\ EreignisInv'
  <2>1. TypeInv' /\ EreignisInv'
    BY <1>1, <1>2 DEF TypeInv, EreignisInv
  <2>2. \A u \in Vorgaenge : alter'[u] = "ungesendet" <=> alter[u] = "ungesendet"
    BY <1>2
  <2>3. zeile.v # 0 => zeile.v \in Vorgaenge
    BY <1>1 DEF TypeInv, ZeileTyp
  <2>4. ZeileInv'
    BY <1>1, <1>2, <2>2, <2>3 DEF ZeileInv
  <2> QED
    BY <2>1, <2>4
<1>4. AnfrageInv'
  BY <1>1, <1>2 DEF AnfrageInv, AnfrageStimmt
<1>5. RufInv'
  <2> SUFFICES ASSUME NEW b \in Anfragen
               PROVE  RufStimmt(b)'
    BY DEF RufInv
  <2>1. RufStimmt(b) /\ anfrage[b].v \in Vorgaenge \union {0}
    BY <1>1 DEF RufInv, TypeInv, AnfrageTyp
  <2>2. Unterwegs(b) => alter'[anfrage[b].v] \in {"fenster", "zu"}
    BY <1>2, <2>1 DEF RufStimmt, Unterwegs, Uebermittelt
  <2>3. Traegt(b) => Traegt(b)'
    BY <1>2, <2>1 DEF Traegt
  <2> QED
    BY <1>2, <2>1, <2>2, <2>3 DEF RufStimmt, Unterwegs
<1>6. AnlageInv'
  BY <1>1, <1>2 DEF AnlageInv, AnlageStimmt
<1>7. ErsterInv'
  BY <1>1, <1>2 DEF ErsterInv, ErsterStimmt, Ungehoert, Eigen
<1>8. KanzleiInv'
  BY <1>1, <1>2 DEF KanzleiInv
<1> QED
  BY <1>3, <1>4, <1>5, <1>6, <1>7, <1>8 DEF MeldeInv

LEMMA VergisstHaelt ==
  ASSUME MeldeInv, Vergisst
  PROVE  MeldeInv'
<1> USE DEF spur
<1>1. TypeInv /\ ZeileInv /\ AnfrageInv /\ EreignisInv /\ RufInv /\ AnlageInv /\ ErsterInv
      /\ KanzleiInv
  BY DEF MeldeInv
<1>2. /\ UNCHANGED <<zeile, alter, anlage, anfrage, post, inhalt, ereignisse, kanzlei, begonnen,
                     frueh>>
      /\ kennt' = 0 /\ alter[kennt] = "spaet" /\ kennt # 0
  BY DEF Vergisst
<1>3. TypeInv' /\ ZeileInv'
  BY <1>1, <1>2 DEF TypeInv, ZeileInv
<1>4. EreignisInv'
  BY <1>1, <1>2 DEF EreignisInv, TypeInv
<1>5. AnfrageInv' /\ RufInv' /\ AnlageInv'
  BY <1>1, <1>2 DEF AnfrageInv, AnfrageStimmt, RufInv, RufStimmt, Unterwegs, Traegt, AnlageInv,
                    AnlageStimmt
<1>6. ErsterInv' /\ KanzleiInv'
  BY <1>1, <1>2 DEF ErsterInv, ErsterStimmt, Ungehoert, Eigen, KanzleiInv
<1> QED
  BY <1>3, <1>4, <1>5, <1>6 DEF MeldeInv

-----------------------------------------------------------------------------
LEMMA InitHaelt ==
  ASSUME Init
  PROVE  MeldeInv
<1> USE NullIstKeiner, BoundsAssumption DEF Init
<1>1. TypeInv
  BY DEF TypeInv, Keine, ZeileTyp, OhneAnlage, AnlageTyp, Ruht, AnfrageTyp, Frei
<1>2. ZeileInv
  BY DEF ZeileInv, Keine
<1>3. AnfrageInv
  BY DEF AnfrageInv, AnfrageStimmt, Ruht, OhneAnlage
<1>4. EreignisInv /\ RufInv
  BY DEF EreignisInv, RufInv, RufStimmt, Unterwegs, Ruht
<1>5. AnlageInv /\ ErsterInv
  BY DEF AnlageInv, AnlageStimmt, ErsterInv, ErsterStimmt, Ungehoert, Ruht
<1>6. KanzleiInv
  BY DEF KanzleiInv, Frei
<1> QED
  BY <1>1, <1>2, <1>3, <1>4, <1>5, <1>6 DEF MeldeInv

LEMMA StillHaelt ==
  ASSUME MeldeInv, UNCHANGED vars
  PROVE  MeldeInv'
<1> USE DEF vars, dienst, spur
<1>1. TypeInv' /\ ZeileInv' /\ EreignisInv'
  BY DEF MeldeInv, TypeInv, ZeileInv, EreignisInv
<1>2. AnfrageInv' /\ RufInv' /\ AnlageInv'
  BY DEF MeldeInv, AnfrageInv, AnfrageStimmt, RufInv, RufStimmt, Unterwegs, Traegt, AnlageInv,
         AnlageStimmt
<1>3. ErsterInv' /\ KanzleiInv'
  BY DEF MeldeInv, ErsterInv, ErsterStimmt, Ungehoert, Eigen, KanzleiInv
<1> QED
  BY <1>1, <1>2, <1>3 DEF MeldeInv

LEMMA NextHaelt ==
  ASSUME MeldeInv, Next
  PROVE  MeldeInv'
<1>1. ASSUME NEW r \in Anfragen, Schritt(r)
      PROVE  MeldeInv'
  BY <1>1, ZaehleHaelt, BeginneHaelt, LoeseAufHaelt, WiederholeHaelt, UebernimmHaelt, LegeAbHaelt,
     AblageScheitertHaelt, GesendetHaelt, RaeumeHaelt, RufeHaelt, ErfahreHaelt, ZeitlimitHaelt,
     SchliesseHaelt DEF Schritt
<1>2. ASSUME NEW r \in Anfragen,
             Sende(r) \/ Klaere(r) \/ Absturz(r) \/ Ankunft(r) \/ Verloren(r)
      PROVE  MeldeInv'
  BY <1>2, SendeHaelt, KlaereHaelt, AbsturzHaelt, AnkunftHaelt, VerlorenHaelt
<1>3. ASSUME Kanzlei
      PROVE  MeldeInv'
  BY <1>3, PruefeHaelt, FrageHaelt, GibFreiHaelt DEF Kanzlei
<1>4. ASSUME NEW r \in Anfragen, NEW v \in Vorgaenge, Zuordne(r, v)
      PROVE  MeldeInv'
  BY <1>4, ZuordneHaelt
<1>5. ASSUME Bereinige \/ LeaseEndet \/ Vergisst \/ \E v \in Vorgaenge : Altere(v)
      PROVE  MeldeInv'
  BY <1>5, BereinigeHaelt, LeaseEndetHaelt, VergisstHaelt, AltereHaelt
<1> QED
  BY <1>1, <1>2, <1>3, <1>4, <1>5 DEF Next

LEMMA MeldeInvHaelt == Spec => []MeldeInv
<1>1. Init => MeldeInv
  BY InitHaelt
<1>2. MeldeInv /\ [Next]_vars => MeldeInv'
  BY NextHaelt, StillHaelt
<1> QED
  BY <1>1, <1>2, PTL DEF Spec

\* The ranges of the variables, for every set of requests (tcms_portal_report,
\* tcms_document_reference, meldevorgang.ts).
THEOREM TypeCorrect == Spec => []TypeOK
<1>1. MeldeInv => TypeOK
  BY DEF MeldeInv, TypeInv, ZeileInv, AnfrageInv, AnfrageStimmt, TypeOK, ZeileTyp, AnlageTyp,
         AnfrageTyp
<1> QED
  BY <1>1, MeldeInvHaelt, PTL

\* However many requests repeat a report, whatever is lost and whoever takes over the
\* row: the Tax-CMS makes at most one event of it, and what the staff release is in no
\* event unless its row went too early (meldevorgang.ts, faelligeBeanspruchen and
\* ungeklaerteAnlageFreigebenAction).
THEOREM ReportsMakeOneEvent == Spec => [](OneEventPerReport /\ StaffReleaseIsFree)
<1>1. MeldeInv => OneEventPerReport
  BY DEF MeldeInv, EreignisInv, OneEventPerReport
<1>2. MeldeInv => StaffReleaseIsFree
  BY DEF MeldeInv, AnlageInv, AnlageStimmt, StaffReleaseIsFree, Fuehrt
<1> QED
  BY <1>1, <1>2, MeldeInvHaelt, PTL

-----------------------------------------------------------------------------
\* A message of Vorgang v may still be accepted, or is about to leave.
Sendet(q, v) == Sendend(q) /\ anfrage[q].v = v

LEMMA TotHeisst ==
  ASSUME NEW v
  PROVE  Tot(v) <=> /\ ereignisse[v] = 0 /\ zeile.v # v
                    /\ \A q \in Anfragen : ~ Sendet(q, v)
  BY DEF Tot, Sendet, Sendend

\* Only the row's own Vorgang gets a new sender, and only a sender makes an event.
Folgt ==
  /\ \A q \in Anfragen, v \in Vorgaenge : Sendet(q, v)' => Sendet(q, v) \/ zeile.v = v
  /\ \A v \in Vorgaenge :
       \/ ereignisse'[v] = ereignisse[v]
       \/ ereignisse'[v] > 0 /\ \E q \in Anfragen : Sendet(q, v)

\* Requests other than r are left alone, and r does not begin to send.
LEMMA StilleFolgt ==
  ASSUME NEW r \in Anfragen,
         \A q \in Anfragen \ {r} : anfrage'[q] = anfrage[q] /\ post'[q] = post[q],
         Sendend(r)' => anfrage'[r].v = zeile.v \/ (Sendend(r) /\ anfrage'[r].v = anfrage[r].v),
         ereignisse' = ereignisse
  PROVE  Folgt
  BY DEF Folgt, Sendet, Sendend

LEMMA SchrittFolgt ==
  ASSUME MeldeInv, NEW r \in Anfragen, Schritt(r)
  PROVE  Folgt
<1> DEFINE Andere == \A q \in Anfragen \ {r} : anfrage'[q] = anfrage[q] /\ post'[q] = post[q]
           Selbst == /\ Sendend(r)' => \/ anfrage'[r].v = zeile.v
                                       \/ Sendend(r) /\ anfrage'[r].v = anfrage[r].v
                     /\ ereignisse' = ereignisse
<1>1. TypeInv /\ AnfrageStimmt(r)
  BY DEF MeldeInv, AnfrageInv
<1>2. anfrage[r] \in AnfrageTyp
  BY <1>1 DEF TypeInv
<1>3. Zaehle(r) \/ Beginne(r) \/ LoeseAuf(r) => Andere /\ Selbst
  <2> SUFFICES ASSUME Zaehle(r) \/ Beginne(r) \/ LoeseAuf(r)
               PROVE  Andere /\ Selbst
    OBVIOUS
  <2>1. post[r] = "keine" /\ UNCHANGED <<post, ereignisse>>
    BY RuhigGeht DEF Zaehle, Beginne, LoeseAuf, Vorher, dienst
  <2>2. /\ \A q \in Anfragen \ {r} : anfrage'[q] = anfrage[q]
        /\ anfrage'[r].pc # "ruft"
    <3>1. CASE Endet(r)
      BY <1>1, <3>1, EndetFertig DEF Fertig, NurAnfrage
    <3>2. CASE Beginnt(r)
      BY <1>1, <1>2, <3>2 DEF Beginnt, TypeInv, AnfrageTyp
    <3>3. CASE Zaehle(r)
      BY <1>1, <1>2, <3>3 DEF Zaehle, Weiter, TypeInv, AnfrageTyp
    <3> QED
      BY <3>1, <3>2, <3>3 DEF Beginne, LoeseAuf
  <2> QED
    BY <2>1, <2>2 DEF Sendend
<1>4. Wiederhole(r) \/ Uebernimm(r) => Andere /\ Selbst
  <2> SUFFICES ASSUME Wiederhole(r) \/ Uebernimm(r)
               PROVE  Andere /\ Selbst
    OBVIOUS
  <2>1. post[r] = "keine" /\ UNCHANGED <<post, ereignisse>>
    BY RuhigGeht DEF Wiederhole, Uebernimm, Vorher, dienst
  <2>2. /\ \A q \in Anfragen \ {r} : anfrage'[q] = anfrage[q]
        /\ anfrage'[r].pc = "ruft" => anfrage'[r].v = zeile.v
    <3>1. CASE Endet(r)
      BY <1>1, <3>1, EndetFertig DEF Fertig, NurAnfrage
    <3>2. CASE Beanspruchbar(r) /\ Weiter(r, "ruft")
      BY <1>1, <3>2, WeiterGeht DEF Geht, NurAnfrage, Beanspruchbar, Stellen
    <3>3. CASE anfrage' = [anfrage EXCEPT ![r].pc = "schliesst", ![r].ausgang = "nieGesendet"]
      BY <1>1, <1>2, <3>3 DEF TypeInv, AnfrageTyp
    <3> QED
      BY <3>1, <3>2, <3>3 DEF Wiederhole, Uebernimm
  <2> QED
    BY <2>1, <2>2 DEF Sendend
<1>5. LegeAb(r) \/ AblageScheitert(r) \/ Gesendet(r) => Andere /\ Selbst
  BY <1>1, <1>2 DEF LegeAb, AblageScheitert, Gesendet, Eigen, Weiter, TypeInv, AnfrageTyp, dienst,
                    Sendend
<1>6. Raeume(r) \/ Rufe(r) => Andere /\ Selbst
  BY <1>1, <1>2 DEF Raeume, Rufe, Erfaehrt, Weiter, TypeInv, AnfrageTyp, dienst, Sendend
<1>7. Erfahre(r) \/ Zeitlimit(r) => Andere /\ Selbst
  BY <1>1, <1>2 DEF Erfahre, Zeitlimit, Erfaehrt, TypeInv, AnfrageTyp, dienst, Sendend
<1>8. Schliesse(r) => Andere /\ Selbst
  BY <1>1, <1>2 DEF Schliesse, Endet, Ruht, TypeInv, AnfrageTyp, dienst, Sendend
<1> QED
  BY <1>3, <1>4, <1>5, <1>6, <1>7, <1>8, StilleFolgt DEF Schritt

LEMMA NextFolgt ==
  ASSUME MeldeInv, Next
  PROVE  Folgt
<1>1. TypeInv
  BY DEF MeldeInv
<1>2. ASSUME UNCHANGED <<anfrage, post, ereignisse>>
      PROVE  Folgt
  BY <1>2 DEF Folgt, Sendet, Sendend
<1>3. ASSUME NEW r \in Anfragen, Schritt(r)
      PROVE  Folgt
  BY <1>3, SchrittFolgt
<1>4. ASSUME NEW r \in Anfragen, Sende(r) \/ Klaere(r)
      PROVE  Folgt
  <2>1. post[r] = "keine" /\ UNCHANGED <<post, ereignisse>>
    BY <1>4, RuhigGeht DEF Sende, Klaere, Vorher, dienst
  <2>2. anfrage[r] \in AnfrageTyp
    BY <1>1 DEF TypeInv
  <2>3. CASE Sende(r)
    BY <1>1, <2>1, <2>2, <2>3, StilleFolgt DEF Sende, TypeInv, AnfrageTyp, Sendend
  <2>4. CASE Klaere(r)
    BY <1>1, <2>1, <2>2, <2>4, StilleFolgt DEF Klaere, TypeInv, AnfrageTyp, Sendend
  <2> QED
    BY <1>4, <2>3, <2>4
<1>5. ASSUME NEW r \in Anfragen, Absturz(r)
      PROVE  Folgt
  <2>1. Fertig(r)
    BY <1>1, <1>5, EndetFertig DEF Absturz
  <2>2. ereignisse' = ereignisse /\ (post'[r] = "unterwegs" => post[r] = "unterwegs")
        /\ \A q \in Anfragen \ {r} : post'[q] = post[q]
    BY <1>1, <1>5 DEF Absturz, dienst, TypeInv
  <2> QED
    BY <2>1, <2>2, StilleFolgt DEF Fertig, NurAnfrage, Sendend
<1>6. ASSUME NEW r \in Anfragen, Verloren(r)
      PROVE  Folgt
  BY <1>1, <1>6, StilleFolgt DEF Verloren, TypeInv, dienst, Sendend
<1>7. ASSUME NEW r \in Anfragen, Ankunft(r)
      PROVE  Folgt
  <2>1. PICK a \in {"abgelehnt", "abweichung", "angenommen"}, e \in Vorgaenge \union {0} :
          Antwortet(r, a, e)
    BY <1>1, <1>7 DEF Ankunft, LehntAb, Wiedererkannt, NimmtAn, TypeInv, AnfrageTyp
  <2>2. Beantwortet(r, a, e)
    BY <1>1, <2>1, AntwortetWirkt
  <2>3. \A q \in Anfragen, v \in Vorgaenge : Sendet(q, v)' => Sendet(q, v)
    BY <1>1, <2>2 DEF Beantwortet, NurAnfrage, Sendet, Sendend
  <2>4. \A v \in Vorgaenge :
          \/ ereignisse'[v] = ereignisse[v]
          \/ ereignisse'[v] > 0 /\ Sendet(r, v)
    BY <1>1, <1>7 DEF Ankunft, LehntAb, Wiedererkannt, NimmtAn, dienst, TypeInv, Sendet, Sendend
  <2> QED
    BY <2>3, <2>4 DEF Folgt
<1>8. Kanzlei \/ Bereinige \/ LeaseEndet \/ Vergisst => Folgt
  BY <1>2 DEF Kanzlei, Pruefe, Frage, GibFrei, Bereinige, LeaseEndet, Vergisst, dienst
<1>9. (\E r \in Anfragen, v \in Vorgaenge : Zuordne(r, v)) \/ (\E v \in Vorgaenge : Altere(v))
        => Folgt
  BY <1>2 DEF Zuordne, Altere, dienst
<1> QED
  BY <1>3, <1>4, <1>5, <1>6, <1>7, <1>8, <1>9 DEF Next

LEMMA TotBleibt ==
  ASSUME MeldeInv, Folgt, NEW v \in Vorgaenge, zeile'.v # v, Tot(v)
  PROVE  Tot(v)'
  BY DEF Folgt, Tot, Sendet, Sendend

\* What has been decided of an attachment that was sent stays true of it.
LEMMA SentBleibt ==
  ASSUME MeldeInv, SentInv, Folgt, zeile'.v \in {zeile.v, 0}, inhalt' = inhalt,
         \A q \in Anfragen :
           \/ anlage'[q] = anlage[q] \/ anlage'[q].stand = "freiKanzlei"
           \/ \A v \in Vorgaenge : q \notin inhalt[v]
  PROVE  SentInv'
<1> SUFFICES ASSUME NEW q \in Anfragen, NEW v \in Vorgaenge, q \in inhalt[v],
                    anlage'[q] = anlage[q] \/ anlage'[q].stand = "freiKanzlei"
             PROVE  /\ anlage'[q].stand = "gebunden" /\ zeile'.v # 0 => zeile'.v = v
                    /\ anlage'[q].stand = "frei" => Tot(v)'
                    /\ anlage'[q].stand = "zugeordnet" =>
                         anlage'[q].ereignis = v /\ ereignisse'[v] > 0
  BY DEF SentInv, SentStimmt
<1>1. SentStimmt(q) /\ (Tot(v) => zeile'.v # v)
  BY NullIstKeiner DEF SentInv, Tot
<1>2. Tot(v) => Tot(v)'
  BY <1>1, TotBleibt
<1>3. ereignisse[v] > 0 => ereignisse'[v] > 0
  BY DEF Folgt
<1> QED
  BY <1>1, <1>2, <1>3 DEF SentStimmt

\* A Vorgang begins over nothing that has been sent.
LEMMA SentBeginnt ==
  ASSUME MeldeInv, SentInv, Folgt, NEW r \in Anfragen, Beginnt(r), ~ zeile.gesendet,
         UnsentOwnsNothingSent', inhalt' = inhalt,
         \A q \in Anfragen :
           anlage'[q] = anlage[q] \/ (zeile.v # 0 /\ anlage[q].stand = "gebunden")
  PROVE  SentInv'
<1>1. TypeInv /\ ZeileInv
  BY DEF MeldeInv
<1>2. /\ zeile'.v = begonnen + 1 /\ ~ zeile'.gesendet /\ begonnen \in Nat
      /\ zeile'.v \in Nat /\ zeile'.v # 0
  BY <1>1, BoundsAssumption DEF Beginnt, TypeInv
<1> SUFFICES ASSUME NEW q \in Anfragen, NEW v \in Vorgaenge, q \in inhalt[v]
             PROVE  /\ anlage'[q].stand # "gebunden"
                    /\ anlage'[q].stand = "frei" => Tot(v)'
                    /\ anlage'[q].stand = "zugeordnet" =>
                         anlage'[q].ereignis = v /\ ereignisse'[v] > 0
  BY DEF SentInv, SentStimmt
<1>3. v \in Nat /\ alter[v] # "ungesendet" /\ v <= begonnen
  BY <1>1, NullIstKeiner DEF ZeileInv, TypeInv
<1>4. zeile'.v # v /\ zeile.v # v
  BY <1>1, <1>2, <1>3, NullIstKeiner DEF ZeileInv
<1>5. anlage'[q].stand # "gebunden"
  BY <1>2 DEF UnsentOwnsNothingSent, Offene
<1>6. SentStimmt(q)
  BY DEF SentInv
<1>7. anlage'[q] = anlage[q]
  BY <1>4, <1>6 DEF SentStimmt
<1>8. Tot(v) => Tot(v)'
  BY <1>4, TotBleibt
<1>9. ereignisse[v] > 0 => ereignisse'[v] > 0
  BY DEF Folgt
<1> QED
  BY <1>5, <1>6, <1>7, <1>8, <1>9 DEF SentStimmt

LEMMA SentGesendet ==
  ASSUME MeldeInv, SentInv, Folgt, NEW r \in Anfragen, Gesendet(r)
  PROVE  SentInv'
<1>1. TypeInv /\ ZeileInv /\ AnlageInv /\ anfrage[r].pc = "legtAb" /\ anlage' = anlage
  BY DEF MeldeInv, Gesendet
<1>2. CASE UNCHANGED <<zeile, inhalt>>
  BY <1>1, <1>2, SentBleibt
<1>3. CASE /\ Eigen(r) /\ ~ zeile.gesendet
           /\ zeile' = [zeile EXCEPT !.gesendet = TRUE, !.lease = TRUE]
           /\ inhalt' = [inhalt EXCEPT ![zeile.v] = IF anfrage[r].mit THEN {r} ELSE {}]
  <2>1. zeile'.v = zeile.v /\ zeile.v \in Vorgaenge \union {0}
    BY <1>1, <1>3 DEF TypeInv, ZeileTyp
  <2>2. anlage[r].stand \in {"keine", "gebunden"}
    BY <1>1, <1>3 DEF AnlageInv, AnlageStimmt, Eigen
  <2> SUFFICES ASSUME NEW q \in Anfragen, NEW v \in Vorgaenge, q \in inhalt'[v]
               PROVE  /\ anlage'[q].stand = "gebunden" /\ zeile'.v # 0 => zeile'.v = v
                      /\ anlage'[q].stand = "frei" => Tot(v)'
                      /\ anlage'[q].stand = "zugeordnet" =>
                           anlage'[q].ereignis = v /\ ereignisse'[v] > 0
    BY DEF SentInv, SentStimmt
  <2>3. CASE v = zeile.v
    <3>1. q = r
      BY <1>1, <1>3, <2>3 DEF TypeInv
    <3> QED
      BY <1>1, <2>1, <2>2, <2>3, <3>1
  <2>4. CASE v # zeile.v
    <3>1. q \in inhalt[v]
      BY <1>1, <1>3, <2>4 DEF TypeInv
    <3>2. SentStimmt(q)
      BY DEF SentInv
    <3>3. Tot(v) => Tot(v)'
      BY <2>1, <2>4, TotBleibt
    <3>4. ereignisse[v] > 0 => ereignisse'[v] > 0
      BY DEF Folgt
    <3> QED
      BY <1>1, <2>1, <3>1, <3>2, <3>3, <3>4 DEF SentStimmt
  <2> QED
    BY <2>3, <2>4
<1> QED
  BY <1>2, <1>3 DEF Gesendet

\* What an acceptance assigns is borne by the event it names; what a rejection frees will
\* never be sent again.
LEMMA SentSchliesse ==
  ASSUME MeldeInv, SentInv, Folgt, NEW r \in Anfragen, Schliesse(r)
  PROVE  SentInv'
<1>1. TypeInv /\ ZeileInv /\ RufStimmt(r) /\ AnlageInv /\ ErsterStimmt(r) /\ AnfrageStimmt(r)
  BY DEF MeldeInv, RufInv, ErsterInv, AnfrageInv
<1>2. /\ anfrage[r].pc = "schliesst" /\ Fertig(r)
      /\ UNCHANGED <<inhalt, kennt, ereignisse, post, alter>>
  BY <1>1, EndetFertig DEF Schliesse, dienst
<1>3. CASE anlage' = anlage /\ zeile'.v \in {zeile.v, 0}
  BY <1>2, <1>3, SentBleibt
<1>4. CASE /\ Angenommen(r) /\ zeile.v = anfrage[r].v /\ zeile.gesendet
           /\ zeile' = Keine /\ Setze(Offene, "zugeordnet", anfrage[r].ereignis)
  <2>1. PICK e \in Vorgaenge, v \in Vorgaenge :
          /\ e = anfrage[r].ereignis /\ v = zeile.v
          /\ ereignisse[e] > 0 /\ inhalt[e] = inhalt[v]
    BY <1>1, <1>4 DEF Angenommen, RufStimmt, Traegt, TypeInv, AnfrageTyp, ZeileTyp
  <2>2. \A q \in Anfragen :
          \/ anlage'[q] = anlage[q] /\ anlage[q].stand # "gebunden"
          \/ /\ anlage[q].stand = "gebunden"
             /\ anlage'[q].stand = "zugeordnet" /\ anlage'[q].ereignis = e
    BY <1>1, <1>4, <2>1, SetzeOffene
  <2> SUFFICES ASSUME NEW q \in Anfragen, NEW u \in Vorgaenge, q \in inhalt[u]
               PROVE  /\ anlage'[q].stand = "frei" => Tot(u)'
                      /\ anlage'[q].stand = "zugeordnet" =>
                           anlage'[q].ereignis = u /\ ereignisse'[u] > 0
    BY <1>2, <1>4 DEF SentInv, SentStimmt, Keine
  <2>3. SentStimmt(q) /\ (Tot(u) => Tot(u)')
    <3>1. zeile'.v # u
      BY <1>4, NullIstKeiner DEF Keine
    <3> QED
      BY <3>1, TotBleibt DEF SentInv
  <2>4. CASE anlage'[q] = anlage[q] /\ anlage[q].stand # "gebunden"
    BY <1>2, <2>3, <2>4 DEF SentStimmt
  <2>5. CASE /\ anlage[q].stand = "gebunden"
             /\ anlage'[q].stand = "zugeordnet" /\ anlage'[q].ereignis = e
    <3>1. u = v
      BY <2>1, <2>3, <2>5, NullIstKeiner DEF SentStimmt
    <3>2. q \in inhalt[e]
      BY <2>1, <3>1
    <3>3. u = e
      BY <1>1, <3>2 DEF AnlageInv, AnlageStimmt
    <3> QED
      BY <1>2, <2>1, <2>5, <3>3
  <2> QED
    BY <2>2, <2>4, <2>5
<1>5. CASE /\ Freigegeben(r) /\ Eigen(r)
           /\ zeile.gesendet <=> anfrage[r].ausgang = "abgelehnt"
           /\ zeile' = Keine /\ Setze(Offene, "frei", 0)
  <2>1. \A q \in Anfragen :
          \/ anlage'[q] = anlage[q] /\ anlage[q].stand # "gebunden"
          \/ /\ anlage[q].stand = "gebunden"
             /\ anlage'[q].stand = "frei" /\ anlage'[q].ereignis = 0
    BY <1>1, <1>5, SetzeOffene
  <2> SUFFICES ASSUME NEW q \in Anfragen, NEW u \in Vorgaenge, q \in inhalt[u]
               PROVE  /\ anlage'[q].stand = "frei" => Tot(u)'
                      /\ anlage'[q].stand = "zugeordnet" =>
                           anlage'[q].ereignis = u /\ ereignisse'[u] > 0
    BY <1>2, <1>5 DEF SentInv, SentStimmt, Keine
  <2>2. zeile'.v # u /\ SentStimmt(q)
    BY <1>5, NullIstKeiner DEF Keine, SentInv
  <2>3. CASE anlage'[q] = anlage[q] /\ anlage[q].stand # "gebunden"
    BY <1>2, <2>2, <2>3, TotBleibt DEF SentStimmt
  <2>4. CASE anlage[q].stand = "gebunden" /\ anlage'[q].stand = "frei"
    <3>1. zeile.v # 0
      BY <1>1, <1>5, AnfragenAssumption DEF Eigen, ZeileInv
    <3>2. zeile.v = u /\ u = anfrage[r].v
      BY <1>5, <2>2, <2>4, <3>1 DEF SentStimmt, Eigen
    <3>3. anfrage[r].ausgang = "abgelehnt"
      BY <1>1, <1>5, <3>2, NullIstKeiner DEF ZeileInv
    <3>4. Ungehoert(r)
      BY <1>1, <1>2, <1>5, <3>3 DEF Ungehoert, AnfrageStimmt
    <3>5. /\ ereignisse[u] = 0
          /\ \A p \in Anfragen \ {r} :
               anfrage[p].v = u => anfrage[p].pc # "ruft" /\ post[p] # "unterwegs"
      BY <1>1, <3>2, <3>4 DEF ErsterStimmt
    <3>6. post[r] # "unterwegs"
      BY <1>1, <1>2, <3>3 DEF AnfrageStimmt
    <3> QED
      BY <1>2, <2>2, <2>4, <3>5, <3>6 DEF Tot, Fertig, NurAnfrage
  <2> QED
    BY <2>1, <2>3, <2>4
<1>6. Angenommen(r) \/ Freigegeben(r) \/ Ungeklaert(r) \/ Offen(r)
  BY DEF Schliesse
<1>7. CASE Angenommen(r)
  BY <1>3, <1>4, <1>7 DEF Angenommen
<1>8. CASE Freigegeben(r)
  BY <1>3, <1>5, <1>8 DEF Freigegeben
<1>9. CASE Ungeklaert(r)
  BY <1>3, <1>9 DEF Ungeklaert, Entfaellt, Keine
<1>10. CASE Offen(r)
  <2>1. anlage' = anlage /\ zeile'.v = zeile.v
    BY <1>1, <1>10 DEF Offen, TypeInv, ZeileTyp
  <2> QED
    BY <1>3, <2>1
<1> QED
  BY <1>6, <1>7, <1>8, <1>9, <1>10

LEMMA SentSchritt ==
  ASSUME MeldeInv, SentInv, Folgt, NEW r \in Anfragen, Schritt(r), UnsentOwnsNothingSent'
  PROVE  SentInv'
<1>1. TypeInv /\ ZeileInv /\ AnlageStimmt(r)
  BY DEF MeldeInv, AnlageInv
<1>2. CASE Beginne(r)
  <2>1. inhalt' = inhalt /\ anlage' = anlage
    BY <1>2 DEF Beginne, dienst
  <2>2. CASE zeile' = zeile
    BY <2>1, <2>2, SentBleibt
  <2>3. CASE zeile.v = 0 /\ Beginnt(r)
    BY <1>1, <2>1, <2>3, SentBeginnt DEF ZeileInv
  <2> QED
    BY <1>2, <2>2, <2>3 DEF Beginne
<1>3. CASE LoeseAuf(r)
  <2>1. inhalt' = inhalt
    BY <1>3 DEF LoeseAuf, dienst
  <2>2. CASE zeile' = zeile /\ anlage' = anlage
    BY <2>1, <2>2, SentBleibt
  <2>3. CASE ~ zeile.gesendet /\ zeile.v # 0 /\ Setze(Offene, "frei", 0) /\ Beginnt(r)
    <3>1. \A q \in Anfragen :
            anlage'[q] = anlage[q] \/ (zeile.v # 0 /\ anlage[q].stand = "gebunden")
      BY <1>1, <2>3, SetzeOffene
    <3> QED
      BY <2>1, <2>3, <3>1, SentBeginnt
  <2>4. anfrage[r].v # 0
    BY <1>3, RuhigGeht DEF LoeseAuf, Vorher
  <2> QED
    BY <1>3, <2>2, <2>3, <2>4 DEF LoeseAuf
<1>4. CASE LegeAb(r) \/ Raeume(r)
  <2>1. inhalt' = inhalt /\ zeile' = zeile /\ anfrage[r].pc \in {"legtAb", "raeumt"}
    BY <1>4 DEF LegeAb, Raeume, dienst
  <2>2. \A q \in Anfragen \ {r} : anlage'[q] = anlage[q]
    BY <1>1, <1>4, SetzeEine DEF LegeAb, Raeume
  <2>3. \A v \in Vorgaenge : r \notin inhalt[v]
    BY <1>1, <2>1 DEF AnlageStimmt
  <2> QED
    BY <2>1, <2>2, <2>3, SentBleibt
<1>5. CASE Wiederhole(r) \/ Uebernimm(r)
  <2>1. inhalt' = inhalt /\ anlage' = anlage
    BY <1>5 DEF Wiederhole, Uebernimm, dienst
  <2>2. zeile'.v = zeile.v
    BY <1>1, <1>5 DEF Wiederhole, Uebernimm, Beanspruche, TypeInv, ZeileTyp
  <2> QED
    BY <2>1, <2>2, SentBleibt
<1>6. CASE Zaehle(r) \/ AblageScheitert(r) \/ Rufe(r) \/ Erfahre(r) \/ Zeitlimit(r)
  <2>1. inhalt' = inhalt /\ anlage' = anlage /\ zeile' = zeile
    BY <1>6 DEF Zaehle, AblageScheitert, Rufe, Erfahre, Zeitlimit, dienst
  <2> QED
    BY <2>1, SentBleibt
<1>7. CASE Gesendet(r)
  BY <1>7, SentGesendet
<1>8. CASE Schliesse(r)
  BY <1>8, SentSchliesse
<1> QED
  BY <1>2, <1>3, <1>4, <1>5, <1>6, <1>7, <1>8 DEF Schritt

LEMMA SentNext ==
  ASSUME MeldeInv, SentInv, Next, UnsentOwnsNothingSent'
  PROVE  SentInv'
<1>1. TypeInv /\ AnlageInv /\ Folgt
  BY NextFolgt DEF MeldeInv
<1>2. ASSUME UNCHANGED <<inhalt, anlage>>, zeile'.v \in {zeile.v, 0}
      PROVE  SentInv'
  BY <1>1, <1>2, SentBleibt
<1>3. ASSUME NEW r \in Anfragen, Schritt(r)
      PROVE  SentInv'
  BY <1>1, <1>3, SentSchritt
<1>4. ASSUME NEW r \in Anfragen,
             Sende(r) \/ Klaere(r) \/ Absturz(r) \/ Ankunft(r) \/ Verloren(r)
      PROVE  SentInv'
  BY <1>2, <1>4 DEF Sende, Klaere, Absturz, Ankunft, LehntAb, Wiedererkannt, NimmtAn, Verloren,
                    dienst
<1>5. ASSUME Frage \/ Vergisst \/ \E r \in Anfragen : Pruefe(r)
      PROVE  SentInv'
  BY <1>2, <1>5 DEF Frage, Vergisst, Pruefe, dienst
<1>6. ASSUME NEW v \in Vorgaenge, Altere(v)
      PROVE  SentInv'
  BY <1>2, <1>6 DEF Altere, dienst
<1>7. ASSUME Bereinige \/ LeaseEndet
      PROVE  SentInv'
  BY <1>1, <1>2, <1>7 DEF Bereinige, Entfaellt, Keine, LeaseEndet, dienst, TypeInv, ZeileTyp
<1>8. ASSUME GibFrei
      PROVE  SentInv'
  <2>1. inhalt' = inhalt /\ zeile' = zeile
    BY <1>8 DEF GibFrei, dienst
  <2>2. CASE anlage' = anlage
    BY <1>2, <2>1, <2>2
  <2>3. CASE kanzlei.r \in Anfragen /\ Setze({kanzlei.r}, "freiKanzlei", 0)
    <3>1. PICK r \in Anfragen : r = kanzlei.r
      BY <2>3
    <3>2. \A q \in Anfragen : anlage'[q] = anlage[q] \/ anlage'[q].stand = "freiKanzlei"
      BY <1>1, <2>3, <3>1, SetzeEine
    <3> QED
      BY <1>1, <2>1, <3>2, SentBleibt
  <2> QED
    BY <1>8, <2>2, <2>3 DEF GibFrei, Offene
<1>9. ASSUME NEW r \in Anfragen, NEW v \in Vorgaenge, Zuordne(r, v)
      PROVE  SentInv'
  <2>1. /\ UNCHANGED <<inhalt, zeile, ereignisse, anfrage, post>>
        /\ r \in inhalt[v] /\ ereignisse[v] > 0
    BY <1>9 DEF Zuordne, dienst, Fuehrt
  <2>2. /\ anlage'[r].stand = "zugeordnet" /\ anlage'[r].ereignis = v
        /\ \A q \in Anfragen \ {r} : anlage'[q] = anlage[q]
    BY <1>1, <1>9, SetzeEine DEF Zuordne
  <2>3. \A u \in Vorgaenge : r \in inhalt[u] => u = v
    BY <1>1, <2>1 DEF AnlageInv, AnlageStimmt
  <2>4. SentStimmt(r)'
    BY <2>1, <2>2, <2>3 DEF SentStimmt
  <2>5. ASSUME NEW q \in Anfragen, q # r
        PROVE  SentStimmt(q)'
    BY <2>1, <2>2, <2>5 DEF SentInv, SentStimmt, Tot
  <2> QED
    BY <2>4, <2>5 DEF SentInv
<1> QED
  BY <1>3, <1>4, <1>5, <1>6, <1>7, <1>8, <1>9 DEF Next, Kanzlei

\* Wherever no Vorgang begins over attachments that have been sent, no document of an
\* event is released by the program, and what is assigned is borne by its event, for good.
\* That the condition can fail is what three requests show (meldevorgang.ts, neuBeginnenTx).
THEOREM LocksFollowEvents == Spec => DocumentsFollowEvents
<1>1. Init => SentInv
  <2> SUFFICES ASSUME Init
               PROVE  SentInv
    OBVIOUS
  <2>1. \A v \in Vorgaenge : inhalt[v] = {}
    BY DEF Init
  <2> QED
    BY <2>1 DEF SentInv, SentStimmt
<1>2. MeldeInv /\ SentInv /\ UnsentOwnsNothingSent' /\ [Next]_vars => SentInv'
  <2>1. MeldeInv /\ SentInv /\ UnsentOwnsNothingSent' /\ Next => SentInv'
    BY SentNext
  <2>2. SentInv /\ UNCHANGED vars => SentInv'
    BY DEF SentInv, SentStimmt, Tot, vars, dienst, spur
  <2> QED
    BY <2>1, <2>2
<1>3. MeldeInv /\ SentInv => EventsAndLocksAgree
  <2> SUFFICES ASSUME MeldeInv, SentInv
               PROVE  EventsAndLocksAgree
    OBVIOUS
  <2>1. OneEventPerReport /\ StaffReleaseIsFree
    BY DEF MeldeInv, EreignisInv, OneEventPerReport, AnlageInv, AnlageStimmt,
           StaffReleaseIsFree, Fuehrt
  <2>2. ReleasedIsFree
    BY DEF ReleasedIsFree, Fuehrt, SentInv, SentStimmt, Tot
  <2>3. AssignedIsBorne
    BY DEF AssignedIsBorne, Fuehrt, SentInv, SentStimmt
  <2> QED
    BY <2>1, <2>2, <2>3 DEF EventsAndLocksAgree
<1> QED
  BY <1>1, <1>2, <1>3, MeldeInvHaelt, PTL DEF Spec, DocumentsFollowEvents
===============================================================================
