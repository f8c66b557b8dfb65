\* Two accounts, two spellings of one address, two rides, restarts and a crash.
SPECIFICATION RecordsSpec
CONSTANTS
  id1 = id1
  id2 = id2
  r1 = r1
  r2 = r2
  None = None
  Uids <- TwoIds
  RideIds <- TwoRides
  Emails <- SomeEmails
  Normal <- Lower
  Malformed = {"@"}
  Passwords = {"long enough", "just as long", "short"}
  TooShort = {"short"}
  Cards = {"visa", " "}
  BlankCards = {" "}
  Licenses = {"valid"}
  Expired = {}
  MaxCrashes = 1
SYMMETRY Symmetric
INVARIANTS
  TypeOK
  EmailIndexConsistent
  LoginReturnsOwner
  ChargeNeverRefused
  RideListsAgree
  ActiveRideNamed
PROPERTIES
  AccountsKept
  RestartKeepsRides
