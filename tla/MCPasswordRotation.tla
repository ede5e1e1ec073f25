------------------------- MODULE MCPasswordRotation -------------------------
(* Small instances of PasswordRotation and of HostPlaybooks, side by side: *)
(* a behaviour is rotations in detail, where repo stays "none", or the     *)
(* playbooks of a host, where a rotation is one step.  postgrest stands    *)
(* for the services that are always restarted.                             *)
EXTENDS PasswordRotation

CONSTANTS Ids, MaxPlays, MaxRows, MaxRotations

VARIABLES directory, staged, aside, dump, stack, repo, checkout, leftover, dotenv, services,
          written, rotations, play, plays

Host == INSTANCE HostPlaybooks WITH live <- directory, env <- dotenv, container <- services

host == <<directory, staged, aside, dump, stack, repo, checkout, leftover, dotenv, services,
          written, rotations, play, plays>>

MCInit ==
  /\ Init
  /\ \/ /\ repo = "none" /\ directory = 0 /\ staged = 0 /\ aside = 0 /\ dump = 0 /\ stack = 0
        /\ checkout = 0 /\ leftover = 0 /\ dotenv = 0 /\ services = 0 /\ written = 0
        /\ rotations = 0 /\ play = 0 /\ plays = 0
     \/ up = Services /\ Host!Init

MCNext ==
  \/ repo = "none" /\ Next /\ UNCHANGED host
  \/ repo # "none" /\ Host!Next /\ UNCHANGED vars

MCSpec == MCInit /\ [][MCNext]_<<vars, host>>

(* Committed rows are in a data directory, whatever playbooks do.          *)
NothingLost == repo # "none" => Host!NothingLost

(* A playbook that reports success leaves the promised rows live.          *)
SuccessServes == [][repo # "none" => Host!EndsServing]_host

(* After an update the services can log in.                                *)
UpdateKeepsAccess == [][repo # "none" => Host!KeepsAccess]_host

=============================================================================
