SPECIFICATION LiveMainSpec
CONSTANTS
  Handlers = {h1, h2}
  Names = {ann, bob}
  Passwords = {p, q}
  Env = {"fail"}
  Files <- Configs
  Right <- Proper
INVARIANTS TypeOK ServesListening SocketReleased
PROPERTIES Linearizable AnsweredCanLogin RequestAnswered ParsesAsWritten
