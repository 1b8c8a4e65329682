------------------------------ MODULE ClockTAI ------------------------------
(***************************************************************************)
(* The offset of TAI from UTC, which every frame with a timestamp needs.   *)
(* It comes from a bulletin that announces leap seconds some time ahead    *)
(* and expires: from the network, or from a cache file that survives a     *)
(* restart, or it is overridden by the remote control.  The main loop asks *)
(* for it in every frame (get_offset) and, once an hour, has a thread of   *)
(* its own look for a valid bulletin (get_valid_offset) whose answer it    *)
(* takes in a later frame.  The remote control is a third thread.          *)
(*                                                                         *)
(* Time is counted in hours, the interval of the refresh.                  *)
(***************************************************************************)
EXTENDS Integers, Sequences, FiniteSets

CONSTANTS
    Bulletins,    \* what the network may give: [entries, expires_at]
    Overrides,    \* offsets that the remote control may set
    Hosts,        \* URLs of the bulletin
    TenYears,     \* validity of an override
    IntMax,       \* of OverrideData::expires_at
    MaxTime, MaxRcCommands, MaxRestarts   \* bounds

VARIABLES
    now,
    tai_clock_offset,           \* of the configuration, <<offset>> or none
    m_bulletin_urls,            \* how many
    m_bulletin, m_state,        \* the bulletin and the offset that is in use
    m_state_last_updated,
    m_offset_future,            \* invalid, running or ready with an answer
    cache,                      \* the file, shared with the next process
    main,                       \* what get_offset is at
    loader,                     \* who runs get_valid_offset, with m_data_mutex locked
    bulletins,                  \* those it has collected
    urls,                       \* those it has not tried yet
    looked,                     \* the main loop has run in this hour
    known,                      \* the file has held a valid bulletin
    unread,                     \* this process has failed to read the file
    ruled,                      \* the override in force, as <<offset>>
    apart,                      \* hours since the offset in use was m_bulletin's last
    rcCommands, restarts

vars == <<now, tai_clock_offset, m_bulletin_urls, m_bulletin, m_state, m_state_last_updated, m_offset_future, cache, main,
          loader, bulletins, urls, looked, known, unread, ruled, apart, rcCommands, restarts>>

config == <<tai_clock_offset, m_bulletin_urls>>
loading == <<main, loader, bulletins, urls>>
ghosts == <<looked, known, unread, ruled, apart>>

Never == -MaxTime - 2      \* time_point::min()
NoBulletin == [entries |-> <<>>, expires_at |-> 0]
NoState == [valid |-> FALSE]
Failed == NoState          \* download_failed

(***************************************************************************)
(* Bulletin::state.  A bulletin without an entry of the past is not valid; *)
(* entries of the future are ignored.                                      *)
(***************************************************************************)
Past(b) == {i \in DOMAIN b.entries : b.entries[i].from < now}
LastEntry(b) == CHOOSE i \in Past(b) : \A j \in Past(b) : j <= i

Valid(b) == Past(b) # {}
Usable(b) == Valid(b) /\ b.expires_at > now
State(b) ==
    [valid |-> TRUE, offset |-> b.entries[LastEntry(b)].offset, expires_at |-> b.expires_at]

AsInt(t) == IF t > IntMax THEN t - 2 * IntMax ELSE t
FixedOffset(o) ==
    [entries |-> <<[from |-> Never, offset |-> o]>>, expires_at |-> AsInt(now + TenYears),
     overridden |-> TRUE]
IsOverride(b) == "overridden" \in DOMAIN b

-----------------------------------------------------------------------------
(***************************************************************************)
(* get_valid_offset, up to the first download.                             *)
(***************************************************************************)
Free == loader = "nobody"

\* Who called it gets the answer; the mutex is free again.
Answer(who, answer) ==
    /\ loader' = "nobody" /\ bulletins' = {} /\ urls' = 0
    /\ IF who = "main" THEN /\ main' = [at |-> "assign", answer |-> answer]
                            /\ UNCHANGED m_offset_future
       ELSE /\ m_offset_future' = [at |-> "ready", answer |-> answer] /\ UNCHANGED main

\* Of those valid, one of those that expire last.
TakeExpired(who, from) ==
    LET valid == {b \in from : Valid(b)} IN
    IF valid = {} THEN Answer(who, Failed) /\ UNCHANGED m_bulletin
    ELSE \E b \in valid :
           /\ \A other \in valid : other.expires_at <= b.expires_at
           /\ m_bulletin' = b
           /\ Answer(who, State(b))

\* With what load_from_file has read.
Search(who, file) ==
    IF Usable(file) THEN m_bulletin' = file /\ Answer(who, State(file))
    ELSE IF m_bulletin_urls = 0 THEN TakeExpired(who, {m_bulletin, file})
    ELSE /\ loader' = who /\ bulletins' = {m_bulletin, file} /\ urls' = m_bulletin_urls
         /\ UNCHANGED <<m_bulletin, m_offset_future, main>>

\* The file may fail to open, to be locked or to be read.
GetValidOffset(who) ==
    /\ Free
    /\ \/ /\ Usable(m_bulletin)
          /\ Answer(who, State(m_bulletin))
          /\ UNCHANGED <<m_bulletin, unread>>
       \/ /\ ~Usable(m_bulletin)
          /\ \E file \in {cache, NoBulletin} :
               Search(who, file) /\ unread' = (unread \/ file # cache)
    /\ UNCHANGED <<now, config, m_state, m_state_last_updated, cache, looked, known, ruled, apart,
                   rcCommands, restarts>>

(***************************************************************************)
(* Bulletin::store_to_cache writes over the file in place and does not     *)
(* truncate it: what is left of the old bulletin stays behind the n lines  *)
(* of the new one that have been written.  The line of the expiry comes    *)
(* before the entries.                                                     *)
(***************************************************************************)
\* Mutant: the file is truncated when it is opened.
OverwrittenTruncates(old, new, n) ==
    [entries |-> [i \in 1..(n - 1) |-> new.entries[i]], expires_at |-> new.expires_at]

Overwritten(old, new, n) ==
    IF n = 0 THEN old
    ELSE [entries |-> [i \in 1..(n - 1) \union DOMAIN old.entries |->
                          IF i < n THEN new.entries[i] ELSE old.entries[i]],
          expires_at |-> new.expires_at]

(***************************************************************************)
(* The answer of one URL: a bulletin, also an unusable one, or an error.   *)
(* The file may not open or not be locked, a write may fail behind any     *)
(* line, and the process may end at any of them (Restart); none of this is *)
(* told to the caller, and nobody else looks at the file meanwhile, for    *)
(* the mutex is held.                                                      *)
(***************************************************************************)
DownloadGives(b) ==
    /\ Usable(b)
    /\ m_bulletin' = b
    /\ \E n \in 0..(Len(b.entries) + 1) : cache' = Overwritten(cache, b, n)
    /\ known' = (known \/ Valid(cache'))
    /\ Answer(loader, State(b))

DownloadDoesNotHelp(got) ==
    /\ urls > 1
    /\ urls' = urls - 1 /\ bulletins' = bulletins \union got
    /\ UNCHANGED <<m_bulletin, m_offset_future, main, loader, cache, known>>

CandidatesAllDownloads(got) == (bulletins \ {m_bulletin}) \union got
Candidates(got) == bulletins \union got

NoDownloadHelped(got) ==
    /\ urls = 1
    /\ TakeExpired(loader, Candidates(got))
    /\ UNCHANGED <<cache, known>>

DownloadEnds ==
    /\ ~Free
    /\ \/ \E b \in Bulletins : DownloadGives(b)
       \/ \E got \in {{}} \union {{b} : b \in {x \in Bulletins : ~Usable(x)}} :
            DownloadDoesNotHelp(got) \/ NoDownloadHelped(got)
    /\ UNCHANGED <<now, config, m_state, m_state_last_updated, looked, unread, ruled, apart, rcCommands,
                   restarts>>

-----------------------------------------------------------------------------
(***************************************************************************)
(* get_offset in the main loop.  The first time it looks for a bulletin    *)
(* itself; it has given up the mutex for that, and writes m_state without. *)
(***************************************************************************)
Idle == [at |-> "idle"]

GetOffsetFirst ==
    /\ main = Idle /\ m_state = NoState /\ Free
    /\ main' = [at |-> "first"]
    /\ UNCHANGED <<now, config, m_bulletin, m_state, m_state_last_updated, m_offset_future, cache,
                   loader, bulletins, urls, ghosts, rcCommands, restarts>>

LoadFirst == main = [at |-> "first"] /\ GetValidOffset("main")

\* Without an offset the multiplexer does not start.
AssignFirst ==
    /\ main.at = "assign"
    /\ m_state' = main.answer
    /\ m_state_last_updated' = now
    /\ main' = IF main.answer = Failed THEN [at |-> "ended"] ELSE Idle
    /\ UNCHANGED <<now, config, m_bulletin, m_offset_future, cache, loader, bulletins, urls, ghosts,
                   rcCommands, restarts>>

RefreshIsDueLate == m_state_last_updated + 2 < now
RefreshIsDue == m_state_last_updated + 1 < now

\* The answer of the thread.
TakeAnswer(answer) ==
    /\ m_offset_future' = [at |-> "invalid"]
    /\ IF answer = Failed
       THEN m_state_last_updated' = m_state_last_updated + 1 /\ UNCHANGED m_state
       ELSE m_state' = answer /\ m_state_last_updated' = now

Refresh ==
    IF ~RefreshIsDue \/ m_offset_future = [at |-> "running"]
    THEN UNCHANGED <<m_state, m_state_last_updated, m_offset_future>>
    ELSE IF m_offset_future = [at |-> "invalid"]
    THEN m_offset_future' = [at |-> "running"] /\ UNCHANGED <<m_state, m_state_last_updated>>
    ELSE TakeAnswer(m_offset_future.answer)

GetOffset ==
    /\ main = Idle /\ m_state # NoState /\ Free
    /\ Refresh
    /\ looked' = TRUE
    /\ UNCHANGED <<now, config, m_bulletin, cache, loading, known, unread, ruled, apart, rcCommands,
                   restarts>>

AsyncLoads == m_offset_future = [at |-> "running"] /\ loader # "async" /\ GetValidOffset("async")

-----------------------------------------------------------------------------
(***************************************************************************)
(* The remote control; it waits for the mutex too.                         *)
(***************************************************************************)
SetOffset(o) ==
    /\ m_bulletin' = FixedOffset(o)
    /\ m_state' = State(FixedOffset(o))
    /\ m_state_last_updated' = now
    /\ ruled' = <<o>> /\ apart' = 0
    /\ UNCHANGED m_bulletin_urls

\* An override expires, so that the URLs are asked.
SetUrl ==
    /\ m_bulletin_urls' = Hosts
    /\ m_state_last_updated' = Never
    /\ m_bulletin' = IF IsOverride(m_bulletin) THEN [m_bulletin EXCEPT !.expires_at = now]
                     ELSE m_bulletin
    /\ ruled' = <<>>
    /\ UNCHANGED <<m_state, apart>>

RemoteControl ==
    /\ rcCommands < MaxRcCommands
    /\ rcCommands' = rcCommands + 1
    /\ Free
    /\ (\E o \in Overrides : SetOffset(o)) \/ SetUrl
    /\ UNCHANGED <<now, tai_clock_offset, m_offset_future, cache, loading, looked, known, unread,
                   restarts>>

(***************************************************************************)
(* An hour has many frames: it does not end before the main loop and the   *)
(* thread have done what they can, but a download may take longer.         *)
(***************************************************************************)
Tick ==
    /\ now < MaxTime
    /\ now' = now + 1
    /\ \/ ~Free
       \/ main = Idle /\ looked /\ ~RefreshIsDue /\ m_offset_future # [at |-> "running"]
    /\ looked' = FALSE
    /\ apart' = IF ~Free \/ m_state = NoState \/ m_state.offset = State(m_bulletin).offset
                THEN 0 ELSE apart + 1
    /\ UNCHANGED <<config, m_bulletin, m_state, m_state_last_updated, m_offset_future, cache,
                   loading, known, unread, ruled, rcCommands, restarts>>

Start ==
    IF tai_clock_offset = <<>>
    THEN m_bulletin' = NoBulletin /\ m_state' = NoState /\ m_bulletin_urls' = Hosts
    ELSE /\ m_bulletin' = FixedOffset(tai_clock_offset[1])
         /\ m_state' = State(FixedOffset(tai_clock_offset[1]))
         /\ m_bulletin_urls' = 0

\* The process ends anywhere and is started again.
Restart ==
    /\ restarts < MaxRestarts
    /\ restarts' = restarts + 1
    /\ Start
    /\ m_state_last_updated' = now
    /\ m_offset_future' = [at |-> "invalid"]
    /\ main' = Idle /\ loader' = "nobody" /\ bulletins' = {} /\ urls' = 0
    /\ looked' = FALSE /\ unread' = FALSE /\ ruled' = <<>> /\ apart' = 0
    /\ UNCHANGED <<now, tai_clock_offset, cache, known, rcCommands>>

Init ==
    /\ now = 1
    /\ \/ /\ tai_clock_offset = <<>> /\ m_bulletin_urls = Hosts
          /\ m_bulletin = NoBulletin /\ m_state = NoState
       \/ \E o \in Overrides :
            /\ tai_clock_offset = <<o>> /\ m_bulletin_urls = 0
            /\ m_bulletin = FixedOffset(o) /\ m_state = State(FixedOffset(o))
    /\ m_state_last_updated = now
    /\ m_offset_future = [at |-> "invalid"]
    /\ cache \in Bulletins \union {NoBulletin}
    /\ main = Idle /\ loader = "nobody" /\ bulletins = {} /\ urls = 0
    /\ looked = FALSE /\ ruled = <<>> /\ apart = 0
    /\ known = Valid(cache) /\ unread = FALSE
    /\ rcCommands = 0 /\ restarts = 0

Next ==
    \/ GetOffsetFirst \/ LoadFirst \/ AssignFirst \/ GetOffset \/ AsyncLoads \/ DownloadEnds
    \/ RemoteControl \/ Tick \/ Restart

Spec == Init /\ [][Next]_vars

-----------------------------------------------------------------------------
(***************************************************************************)
(* Once the cache has held a valid bulletin, no search for an offset fails *)
(* for a process that can read it: not the one after a restart either,     *)
(* whatever the network does and wherever the writing of another bulletin  *)
(* was cut short, for an expired bulletin is better than none.  And a      *)
(* process with an offset never fails to refresh it, cache or not.         *)
(* (ClockTAI::get_valid_offset, Bulletin::store_to_cache)                  *)
(***************************************************************************)
RefreshNeverFails ==
    /\ known /\ ~unread => main.at # "ended"
    /\ m_state # NoState => m_offset_future # [at |-> "ready", answer |-> Failed]

(***************************************************************************)
(* Frames do not go on with an offset that the bulletin held no longer     *)
(* gives, because of a leap second or since an override has been lost in   *)
(* a race: within two hours in which the main loop runs it is put right.   *)
(* (ClockTAI::get_offset)                                                  *)
(***************************************************************************)
WrongForTwoHours == apart <= 2

(***************************************************************************)
(* "The currently used TAI-UTC offset, extracted the bulletin and cached   *)
(* here" (ClockTAI.h): from an override until the next change by the       *)
(* remote control, the offset in use is the one that was asked for.        *)
(***************************************************************************)
OverrideIsUsed == ruled # <<>> /\ m_state # NoState => m_state.offset = ruled[1]
=============================================================================
