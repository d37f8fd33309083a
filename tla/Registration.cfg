\* Two registrations of one address at a time, in a process that is restarted
\* once.  No symmetry, which would not be sound for liveness.
SPECIFICATION FairSpec

CONSTANTS
    Requests = {r1, r2}
    Emails = {e1}
    NoEmail = NoEmail
    Configs <- MCConfigs
    BusyConfigs <- MCBusyConfigs
    MaxStarts = 2
    Failures <- MCFailures

INVARIANTS
    TypeOK
    AcceptedConfigBoots
    VerifiedMembersOnly
    OneWelcome
    FailuresAudited
    NoMemberForgotten

PROPERTIES
    EverySubmissionAnswered
