\* A user upgrades with an expired license.
SPECIFICATION Spec
CONSTANTS
  id1 = id1
  id2 = id2
  id3 = id3
  None = None
  Uids <- SomeIds
  Emails <- SomeEmails
  Normal <- Lower
  Malformed = {"@"}
  Passwords = {"long enough", "just as long", "short"}
  TooShort = {"short"}
  Cards = {"visa", "amex", " "}
  BlankCards = {" "}
  Licenses = {"valid", "expired"}
  Expired = {"expired"}
  MaxCrashes = 1
SYMMETRY Symmetric
INVARIANTS
  LicenseVerified
