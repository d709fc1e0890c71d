SPECIFICATION FairSpec
CONSTANTS
  own = own
  pro = pro
  ad = ad
  msg = msg
  com = com
  rec = rec
  note = note
  photo = photo
  remark = remark
  file = file
  Items = {own, pro, ad, msg, com, rec, note, file, photo, remark}
  Kind <- MCKindOf
  Author <- MCAuthor
  Own = own
  Peer = peer
  Others = {other}
  NoSender = none
  Bucket = {own, pro, ad, msg, com, rec, note, file, photo, remark}
  MessagesFor = {msg}
  Broken = {pro, ad, rec, file, com}
  Minute = 2
  MaxRows <- MCMaxRows
  BucketLimit = 5
  MaxTime = 2
  Arrivals <- MCArrivals
INVARIANTS
    CountCovers
PROPERTIES
    FillIsComplete
    FillEnds
