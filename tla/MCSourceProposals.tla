--------------------------- MODULE MCSourceProposals ---------------------------
(* SourceProposals with a website, a booking route and one stored batch.   *)
EXTENDS SourceProposals, TLC

CONSTANTS p1, p2, p3

Symmetric == Permutations(Attempts)

Site == [id |-> "site", kind |-> "business_website", origin |-> "o1", reference |-> "r1",
         approvedAt |-> 1]
OtherSite == [Site EXCEPT !.origin = "o2"]
Route == [id |-> "route", kind |-> "booking_route_metadata", origin |-> Null,
          reference |-> "r2", approvedAt |-> 1]

MCProviderOwned == {"booking.price"}
MCMaxBytes == 2
AllFields == {"summary", "hours", "booking.price"}

Proposal(id, field) == [id |-> id, field |-> field, valid |-> TRUE, shaped |-> TRUE]
Success(source, batchId, captureId, proposals) ==
  [status |-> "success", source |-> source.id, batchId |-> batchId, captureId |-> captureId,
   origin |-> source.origin, resolvedOrigin |-> source.origin, reference |-> source.reference,
   capturedAt |-> 1, digest |-> "d1", bytes |-> 1, proposals |-> proposals]

SiteOne == Success(Site, "b1", "c1", <<Proposal("k1", "summary"), Proposal("k2", "hours")>>)
RouteOne == Success(Route, "b2", "c2", <<Proposal("k2", "hours"), Proposal("k1", "summary")>>)
SiteAgain == Success(Site, "b1", "c0", <<Proposal("k3", "summary")>>)

MCExtractions ==
  {SiteOne, RouteOne, SiteAgain,
   [SiteOne EXCEPT !.origin = "o2", !.resolvedOrigin = "o2"],
   [SiteOne EXCEPT !.digest = "d2"],
   [SiteOne EXCEPT !.bytes = 3],
   [SiteOne EXCEPT !.capturedAt = 0],
   [SiteOne EXCEPT !.proposals[2].field = "summary"],
   [SiteOne EXCEPT !.proposals[2].shaped = FALSE],
   [RouteOne EXCEPT !.proposals[1].field = "booking.price"],
   [RouteOne EXCEPT !.reference = "r3"],
   [status |-> "failure", source |-> "site", code |-> "STALE_SOURCE_LABEL", proposals |-> <<>>],
   [status |-> "threw", source |-> "route", proposals |-> <<>>]}

Propose(source, key) ==
  [kind |-> "propose", source |-> source, key |-> key, allowedFields |-> AllFields, at |-> 1,
   sessionExpiresAt |-> 2, sameTenant |-> TRUE]
Decide(id, expected, key, outcome) ==
  [kind |-> "decide", candidate |-> "k0", decisionId |-> id, expected |-> expected,
   key |-> key, outcome |-> outcome, at |-> 1, sessionExpiresAt |-> 2, sameTenant |-> TRUE,
   owner |-> TRUE]

ProposeCommands ==
  {Propose(Site, "q1"), Propose(Site, "q2"), Propose(OtherSite, "q3"), Propose(Route, "q3")}
DecideCommands ==
  {Decide("x1", 0, "q1", "rejected"), Decide("x2", 0, "q2", "needs_changes"),
   Decide("x3", 1, "q3", "approved_for_profile_draft"), Decide("x4", 0, "q1", "needs_changes"),
   [Decide("x5", 0, "q4", "rejected") EXCEPT !.candidate = "k1"]}
DeniedCommands ==
  {[Propose(Site, "q1") EXCEPT !.sameTenant = FALSE],
   [Decide("x1", 0, "q1", "rejected") EXCEPT !.owner = FALSE]}
MCCommands == ProposeCommands \cup DecideCommands \cup DeniedCommands

MCSeedBatches ==
  {BatchOf(Propose(Site, "b0"), Success(Site, "b0", "c0", <<Proposal("k0", "summary")>>))}
=============================================================================
