SPECIFICATION FairSpec
CONSTANTS
    Nil = Nil
    Cwd <- MCCwd
    ShellPiece = {"x;y"}
    Files <- MCFiles
    FreeLines <- MCFreeLines
    ArtifactName = "app.zip"
    Envelope = 200
    MaxSent <- MCMaxSent
INVARIANTS NextAnswerIsMine PathStaysInside BuildRefusalsExplained ProfileDeploys
PROPERTIES DeployClientIsAnswered
CHECK_DEADLOCK FALSE
