------------------------------ MODULE MCClient ------------------------------
(***************************************************************************)
(* Instances of the parts of the Firestore client for TLC.  The parts run  *)
(* one at a time: "part" says which, the others stay in their initial      *)
(* state, so that every property of every part can be checked in one run.  *)
(* The parts come with their theorems, which ClientProofs carries over.    *)
(***************************************************************************)
EXTENDS WritePipeline

CONSTANTS
    Parts,                                             \* which parts run
    Targets, Cached, WaitForSync, StateBreaks, Calls,  \* OnlineState
    Fields, Values, Absent, LocalWrites, LocalVersions,  \* LocalView
    Docs, WatchVersions, Listens, WatchBreaks, Rejects,  \* WatchTarget
    Queries, LimboDocs, NoWrite, max_concurrent_limbo_resolutions,  \* Limbo
    LimboChanges, LimboCalls

\* What the parts assume of their constants.
ASSUME ClientAssumption ==
    /\ StateBreaks \in Nat /\ Calls \in Nat
    /\ IsFiniteSet(Docs) /\ Docs /= {}
    /\ IsFiniteSet(Queries) /\ IsFiniteSet(LimboDocs) /\ Queries \cap LimboDocs = {}
    /\ max_concurrent_limbo_resolutions \in Nat

VARIABLES
    part,
    enabled, listen, stream, idle, asked, tracker, views, heard, errors, calls,
    remote, batches, overlay, nextBatch, server, acks, seen,
    listening, keys, saved, resume, held, lastRemote, current, open, state, reset,
    up, down, log, serving, slipped, listens, breaks, rejects,
    viewed, insync, synced, limbo, cached, pending, refs, active, waiting,
    answered, abandoned, truth, changes, turns

Online == INSTANCE OnlineStateProofs WITH
    MaxBreaks <- StateBreaks, MaxCalls <- Calls,
    current <- views, breaks <- errors

Local == INSTANCE LocalViewProofs WITH
    MaxWrites <- LocalWrites, MaxVersions <- LocalVersions,
    queue <- batches, nextId <- nextBatch, log <- server

Watched == INSTANCE WatchTargetProofs WITH
    MaxVersions <- WatchVersions, MaxListens <- Listens,
    MaxBreaks <- WatchBreaks, MaxRejects <- Rejects

Looked == INSTANCE LimboProofs WITH
    Docs <- LimboDocs, MaxChanges <- LimboChanges, MaxCalls <- LimboCalls,
    listening <- viewed, current <- insync, calls <- turns

onlineVars == <<enabled, listen, stream, idle, asked, tracker, views, heard,
                errors, calls>>
localVars == <<remote, batches, overlay, nextBatch, server, acks, seen>>
watchVars == <<listening, keys, saved, resume, held, lastRemote, current, open,
               state, reset, up, down, log, serving, slipped, listens, breaks, rejects>>
limboVars == <<viewed, insync, synced, limbo, cached, pending, refs, active,
               waiting, answered, abandoned, truth, changes, turns>>
allvars == <<part, vars, onlineVars, localVars, watchVars, limboVars>>

Writing(A) == /\ part = "writes" /\ A
              /\ UNCHANGED <<part, onlineVars, localVars, watchVars, limboVars>>
Connecting(A) == /\ part = "online" /\ A
                 /\ UNCHANGED <<part, vars, localVars, watchVars, limboVars>>
Reading(A) == /\ part = "local" /\ A
              /\ UNCHANGED <<part, vars, onlineVars, watchVars, limboVars>>
Watching(A) == /\ part = "watch" /\ A
               /\ UNCHANGED <<part, vars, onlineVars, localVars, limboVars>>
Looking(A) == /\ part = "limbo" /\ A
              /\ UNCHANGED <<part, vars, onlineVars, localVars, watchVars>>

NoDocument == <<[found |-> FALSE, data |-> Local!Empty]>>

MCInit ==
    /\ part \in Parts
    /\ Init /\ Online!Init /\ Local!Init /\ Watched!Init /\ Looked!Init
    /\ part = "writes" \/ user = CHOOSE u \in Users : TRUE
    /\ part = "local" \/ server = NoDocument
    /\ part = "watch" \/ log = <<{}>>

MCNext ==
    \/ Writing(Next)
    \/ Connecting(Online!Next)
    \/ Reading(Local!Next)
    \/ Watching(Watched!Next)
    \/ Looking(Looked!Next)

MCSpec == MCInit /\ [][MCNext]_allvars

\* The fairness of WritePipeline, OnlineState, WatchTarget and Limbo.
MCFairSpec ==
    /\ MCSpec
    /\ WF_allvars(Writing(Client)) /\ WF_allvars(Writing(Server))
    /\ WF_allvars(Connecting(Online!OnlineStateTimeout))
    /\ WF_allvars(Connecting(Online!Progress))
    /\ WF_allvars(Watching(Watched!OnWatchStreamOpen))
    /\ WF_allvars(Watching(Watched!Client))
    /\ WF_allvars(Watching(Watched!ServerWatch))
    /\ WF_allvars(Watching(Watched!ServerUnwatch))
    /\ WF_allvars(Looking(Looked!Answer))
    /\ WF_allvars(Looking(Looked!ApplyRemoteEvent({})))

\* The properties of the parts, see their modules.
TypesOK ==
    TypeOK /\ Online!TypeOK /\ Local!TypeOK /\ Watched!TypeOK /\ Looked!TypeOK
AssertsHold == Online!AssertsHold
OnlineIsOpen == Online!OnlineIsOpen
OfflineIsTold == Online!OfflineIsTold
NoFlap == Online!NoFlap
EveryoneHears == Online!EveryoneHears
OverlayHasBatch == Local!OverlayHasBatch
NothingHidden == Local!NothingHidden
LastWriteShows == Local!LastWriteShows
SettledIsServer == Local!SettledIsServer
TokenIsTrue == Watched!TokenIsTrue
Served == Watched!Served
LimboIsLookedUp == Looked!LimboIsLookedUp
NoLookupLeaks == Looked!NoLookupLeaks
LimboEnds == Looked!LimboEnds
=============================================================================
