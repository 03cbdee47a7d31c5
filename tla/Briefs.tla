------------------------------- MODULE Briefs -------------------------------
(***************************************************************************)
(* The three measures and the three role briefs, read from the judgement   *)
(* rows the CRM stores (structured_intelligence/measures.py, brief.py,     *)
(* judgement_rows.py, user_directory.py and the route that joins them).    *)
(*                                                                         *)
(* The program only reads.  What moves is the world it reads: rows are     *)
(* recorded, time slides the window and a tenant's config_version is       *)
(* bumped, under each answer the directory may give.  In every such state  *)
(* any brief may be asked for; ReadBrief is the whole route.               *)
(*                                                                         *)
(* What a read answers, and every list the code narrows it to, is the set  *)
(* of its rows' positions: their order is the order they were recorded in. *)
(***************************************************************************)
EXTENDS Integers, Sequences, FiniteSetsExt

CONSTANTS Authors,       \* each note's author
          CreatedAt,     \* each note's own timestamp
          Directories,   \* what the user directory may answer: listed people -> role and team
          Totals,        \* the totals that occur
          AcceptAt,      \* accept_threshold
          BandTops,      \* the bands' inclusive upper bounds, ascending
          Floor,         \* measure_evidence_floor
          Days,          \* rolling_window_days
          MaxRows, MaxTime, MaxVersion   \* bounds of the exploration

ASSUME FloorAssumption == Floor \in Nat \ {0} /\ Days \in Nat \ {0}
ASSUME TotalsAssumption == Totals \subseteq 0..100 /\ BandTops \in Seq(0..100) /\ BandTops # <<>>
ASSUME BoundsAssumption == MaxTime \in Nat /\ MaxVersion \in Nat \ {0}
ASSUME DirectoriesAssumption == \A directory \in Directories : IsFiniteSet(DOMAIN directory)

VARIABLES rows,      \* the tenant's rows, in recorded order
          users,     \* the directory
          now,
          version    \* the config_version judgements are stamped with

briefsVars == <<rows, users, now, version>>

Notes == DOMAIN Authors
\* The parts of a row that are null.
Null == -1
Band(total) == Min({i \in DOMAIN BandTops : total <= BandTops[i]} \cup {Len(BandTops)})

BriefsInit == rows = <<>> /\ users \in Directories /\ now = 0 /\ version = 1

-----------------------------------------------------------------------------
(* The world: a judgement is stored exactly as the pipeline shapes it *)

\* Scored: flagged below the accept threshold, and only then perhaps asked about.
ScoredRow(n, total, sent) ==
    [note |-> n, author |-> Authors[n], created |-> CreatedAt[n], system |-> FALSE,
     total |-> total, band |-> Band(total), stamp |-> version,
     sent |-> sent /\ total < AcceptAt, flagged |-> total < AcceptAt]
\* Suppressed, kind by kind: too short is flagged and may be asked about, the others neither.
SuppressedRow(n, kind, sent) ==
    [note |-> n, author |-> Authors[n], created |-> CreatedAt[n],
     system |-> kind = "system_event", total |-> Null, band |-> Null, stamp |-> version,
     sent |-> sent /\ kind = "note_too_short", flagged |-> kind = "note_too_short"]

Record(row) ==
    /\ Len(rows) < MaxRows
    /\ row.created <= now
    /\ rows' = Append(rows, row)
    /\ UNCHANGED <<users, now, version>>

RecordNote ==
    \E n \in Notes, sent \in BOOLEAN :
        \/ \E total \in Totals : Record(ScoredRow(n, total, sent))
        \/ \E kind \in {"note_too_short", "unclassifiable", "system_event"} :
              Record(SuppressedRow(n, kind, sent))

Tick == now < MaxTime /\ now' = now + 1 /\ UNCHANGED <<rows, users, version>>
Reconfigure == version < MaxVersion /\ version' = version + 1 /\ UNCHANGED <<rows, users, now>>

BriefsNext == RecordNote \/ Tick \/ Reconfigure
BriefsSpec == BriefsInit /\ [][BriefsNext]_briefsVars

-----------------------------------------------------------------------------
(* The store's read *)

Everyone == {Authors[n] : n \in Notes} \cup UNION {DOMAIN d : d \in Directories}

\* The half-open window, narrowed to one author when a set of one is given.
RowsBetween(authors) ==
    {i \in DOMAIN rows : /\ now - Days <= rows[i].created /\ rows[i].created < now
                         /\ rows[i].author \in authors}

-----------------------------------------------------------------------------
(* The measures over some rows *)

RepNotes(read) == {i \in read : ~rows[i].system}
Suppression(of) ==
    IF of = 0 THEN "nothing_to_measure" ELSE IF of < Floor THEN "below_evidence_floor" ELSE "none"
Percent(counted, of) == (counted * 100 + of \div 2) \div of

\* The mean of the totals made under the latest scored row's stamp, as a band.
AverageBand(read) ==
    LET scored == {i \in RepNotes(read) : rows[i].total # Null}
        comparable == {i \in scored : rows[i].stamp = rows[Max(scored)].stamp}
        n == Cardinality(comparable)
        sum == SumFunctionOnSet([i \in comparable |-> rows[i].total], comparable)
        why == Suppression(n)
    IN  [suppressed |-> why, notes |-> n, excluded |-> Cardinality(scored) - n,
         band |-> IF why = "none" THEN Band((sum * 2 + n) \div (2 * n)) ELSE Null]

Share(counted, of) ==
    [suppressed |-> Suppression(of), counted |-> counted, of |-> of,
     percent |-> IF Suppression(of) = "none" THEN Percent(counted, of) ELSE Null]

Flagged(read) == {i \in RepNotes(read) : rows[i].flagged}
FlaggedShare(read) == Share(Cardinality(Flagged(read)), Cardinality(RepNotes(read)))

\* mutant: only the note's last row is compared with the one that was asked about.
ImprovedAtTheEnd(asked, later) ==
    later # {} /\ (rows[asked].band = Null \/ rows[Max(later)].band > rows[asked].band)

\* Did a later band of the same note beat the one it had?  Any band beats none.
Improved(asked, later) ==
    later # {} /\ (rows[asked].band = Null \/ \E i \in later : rows[i].band > rows[asked].band)

\* The rows of the same note that carry a band and come after this one.
Later(notes, asked) ==
    {i \in notes : i > asked /\ rows[i].note = rows[asked].note /\ rows[i].band # Null}

Asked(read) == {i \in RepNotes(read) : rows[i].sent}
ImprovedRows(read) == {i \in Asked(read) : Improved(i, Later(RepNotes(read), i))}
ImprovedShare(read) == Share(Cardinality(ImprovedRows(read)), Cardinality(Asked(read)))

-----------------------------------------------------------------------------
(* The briefs: the line each is about, and those of the people or teams in it *)

Line(read) == [average |-> AverageBand(read), flagged |-> FlaggedShare(read),
               improved |-> ImprovedShare(read)]

\* mutant: a line without an average has nothing to tell.
HasAnAverage(line) == line.average.suppressed = "none"
HasAFigure(line) == \E measure \in DOMAIN line : line[measure].suppressed = "none"

ByAuthor(read, authors) == {i \in read : rows[i].author \in authors}

RepBrief(subject) == [whole |-> Line(RowsBetween({subject})), parts |-> <<>>]

\* The leader is one of the team.
NoTeam == "none"
Members(team) == {u \in DOMAIN users : users[u].team = team}
TeamRows(team) == ByAuthor(RowsBetween(Everyone), Members(team))
TeamBrief(team) ==
    [whole |-> Line(TeamRows(team)),
     parts |-> [u \in Members(team) |-> Line(ByAuthor(TeamRows(team), {u}))]]

InATeam == {u \in DOMAIN users : users[u].team # NoTeam}
Teams == {users[u].team : u \in InATeam}
\* mutant: everybody the directory lists is counted, whether in a team or not.
EverythingListed == ByAuthor(RowsBetween(Everyone), DOMAIN users)

Everything == ByAuthor(RowsBetween(Everyone), InATeam)
Unattributed == Cardinality(RowsBetween(Everyone)) - Cardinality(Everything)
OrgBrief ==
    [whole |-> Line(Everything),
     parts |-> [team \in Teams |-> Line(ByAuthor(Everything, Members(team)))]]

LinesOf(brief) == {brief.whole} \cup {brief.parts[who] : who \in DOMAIN brief.parts}

\* Whoever is in no team has no lines in a team brief.
BuildBrief(role, subject) ==
    CASE role = "rep" -> LinesOf(RepBrief(subject))
      [] role = "team_leader" -> IF users[subject].team = NoTeam THEN {}
                                 ELSE LinesOf(TeamBrief(users[subject].team))
      [] role = "head_of_sales" -> LinesOf(OrgBrief)

\* The route: 404 for nobody, 204 when no line carries a figure.
ReadBrief(role, subject) ==
    CASE subject \notin DOMAIN users -> 404
      [] subject \in DOMAIN users /\ (\E line \in BuildBrief(role, subject) : HasAFigure(line)) -> 200
      [] OTHER -> 204

-----------------------------------------------------------------------------
(* What must hold *)

\* Every row is half scored or half suppressed (_exactly_one_half), and every
\* proportion a brief could print lies between 0 and 100.
LineOK(line) ==
    \A m \in {"flagged", "improved"} :
        /\ line[m].counted \in 0..line[m].of
        /\ line[m].percent \in 0..100 \cup {Null}
BriefsTypeOK ==
    /\ users \in Directories /\ now \in 0..MaxTime /\ version \in 1..MaxVersion
    /\ \A i \in DOMAIN rows : rows[i].total = Null <=> rows[i].band = Null
    /\ \A authors \in SUBSET Everyone : LineOK(Line(RowsBetween(authors)))

\* The counts of a roll-up are the counts of its parts added up.
Pools(brief) ==
    \A m \in {"flagged", "improved"}, figure \in {"counted", "of"} :
        brief.whole[m][figure] =
            SumFunctionOnSet([who \in DOMAIN brief.parts |-> brief.parts[who][m][figure]],
                             DOMAIN brief.parts)

\* Nobody's figures depend on who reads them: a person's line in the team brief
\* is their own brief, a team's line in the organisation's brief is the one its
\* leader reads, and every roll-up counts exactly the people under it.
SameFiguresAtEveryAltitude ==
    /\ \A team \in Teams : LET brief == TeamBrief(team)
                           IN  /\ \A u \in Members(team) : brief.parts[u] = RepBrief(u).whole
                               /\ Pools(brief)
                               /\ OrgBrief.parts[team] = brief.whole
    /\ Pools(OrgBrief)

\* A brief with nothing to report is not sent (brief.py), and what a person has to
\* report never goes missing on the way up: whoever reads about more people is sent
\* a brief whenever somebody who reads about fewer of them is, although pooling may
\* take away an average (average_band drops rows made under an older stamp).
FiguresReachUp ==
    \A u \in InATeam :
        /\ ReadBrief("rep", u) = 200 => ReadBrief("team_leader", u) = 200
        /\ ReadBrief("team_leader", u) = 200 =>
               \A head \in DOMAIN users : ReadBrief("head_of_sales", head) = 200

\* A row stays improved: while the window stands still, nothing recorded later
\* takes back an improvement, and no count ever falls.
CountedImproved == ImprovedShare(RowsBetween(Everyone)).counted
CountedFlagged == FlaggedShare(RowsBetween(Everyone)).counted
ImprovementKept ==
    [][now' = now => CountedImproved <= CountedImproved' /\ CountedFlagged <= CountedFlagged']_briefsVars

\* brief.py: the rows counted as unattributed are by people the directory does not list.
UnattributedAreUnlisted ==
    Unattributed = Cardinality(ByAuthor(RowsBetween(Everyone), Everyone \ DOMAIN users))
=============================================================================
