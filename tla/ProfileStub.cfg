SPECIFICATION ProfileSpec
CONSTANTS
  Host = {d1, n2}
  Browser = {d1}
  Bio = {b1}
  PublicMeta = {pins}
  Blank = blank
  Mail = {m1}
  Notice = {s1}
  MaxInbox = 2
  KeepNotices = 1
  LegacySeq = 1
  MaxProfileSeq = 3
  NoProfile = NoProfile
PROPERTY StubCannotHideProfile
